---- MODULE Spec2Model ----
(***************************************************************************)
(* Model of the simulation worker (src/src/workers/sim.worker.ts): the     *)
(* Kuramoto oscillator bank, the energy/social economy, the conversation   *)
(* scheduler and the harmonic learner of PitchField, driven by the         *)
(* worker's message listener and its two interval timers.                  *)
(*                                                                         *)
(* Numbers are fixed point:                                                *)
(*   time            milliseconds                (15 s  = 15000)           *)
(*   phase           1/1000 of a cycle           (2*PI  = 1000)            *)
(*   sin, omega, K   1/1000                      (1.0   = 1000)            *)
(*   energy, status, light, random draws 1/10000 (1.0   = 10000)           *)
(*   degree weights  1/1000                      (1.0   = 1000)            *)
(* Math.random() is an input drawn from a small set at each call site      *)
(* that decides something; the draws that only shape a note's payload      *)
(* (octave and microtonal jitter, duration, timbre) and console logging    *)
(* are left out, as is the visualization bookkeeping (currentNotes),       *)
(* which nothing in the engine reads back.                                 *)
(***************************************************************************)
EXTENDS Integers, Sequences, FiniteSets, TLC

VARIABLES
  agents,                \* KuramotoSimulator.agents: id -> KuramotoAgent
  coupling,              \* KuramotoSimulator.coupling
  currentlyPlayingAgents,\* KuramotoSimulator.currentlyPlayingAgents
  conversationHistory,   \* PitchField.conversationHistory
  lastConversationEnd,   \* PitchField.lastConversationEnd
  currentLightLevel,     \* PitchField.currentLightLevel
  isRunning,             \* EnvironmentSimulator.isRunning
  envIntervalId,         \* EnvironmentSimulator.envIntervalId (0 = null)
  phaseIntervalId,       \* EnvironmentSimulator.phaseIntervalId (0 = null)
  time,                  \* EnvironmentSimulator.time, in 200 ms steps
  lastVisualizationTime, \* EnvironmentSimulator.lastVisualizationTime
  light,                 \* EnvironmentSimulator.state.light
  baseLight,             \* EnvironmentSimulator.baseValues.light
  timers,                \* the runtime's active intervals: set of [id, kind]
  pendingRequests,       \* requestAudioTime messages the host has not answered
  posted,                \* messages posted by the handler that ran last
  lastTick,              \* observation of the last executed tick
  run,                   \* observation of the run so far
  voices,                \* CreatureProcessor.voices: the Voice objects
  noteEvents,            \* CreatureProcessor.noteEvents, sorted by start
  currentFrame,          \* CreatureProcessor.currentFrame
  voiceOut,              \* observation: envelope of each voice's last sample
  notesReceived          \* observation: notes received and voices stolen

vars == <<agents, coupling, currentlyPlayingAgents, conversationHistory,
          lastConversationEnd, currentLightLevel, isRunning, envIntervalId,
          phaseIntervalId, time, lastVisualizationTime, light, baseLight,
          timers, pendingRequests, posted, lastTick, run,
          voices, noteEvents, currentFrame, voiceOut, notesReceived>>

----------------------------------------------------------------------------
(* Bounds of the model *)

NumAgents == 4        \* population size explored (the code creates 16)
MaxTicks == 3         \* ticks of a run of SpecTalk
MaxWorkerTicks == 2   \* ticks of a run of Spec
MaxLongTicks == 60    \* ticks of a run of SpecLong
MaxDecayTicks == 100  \* ticks of a run of SpecDecay
MaxHeldTicks == 11    \* ticks of a run of SpecHeld
MaxEnvTicks == 1      \* firings of the environment timer in a run
MaxPending == 1       \* requestAudioTime messages in flight
MaxRounds == 31       \* conversations rehearsed before a run of SpecLearn

(* Program constants *)

TWO_PI == 1000
PI == 500
dt == 50
conversationCooldown == 15000
lookAhead == 100
InitialCoupling == 150

Ids == 0 .. (NumAgents - 1)

Min(a, b) == IF a <= b THEN a ELSE b
Max(a, b) == IF a >= b THEN a ELSE b
Abs(a) == IF a >= 0 THEN a ELSE -a

----------------------------------------------------------------------------
(* Arithmetic of the host language *)

\* JavaScript's %: the result takes the sign of the dividend.
JsMod(a, m) == IF a >= 0 THEN a % m ELSE -((-a) % m)

\* Math.sin on a phase in 1/1000 cycle, result in 1/1000 (Bhaskara's
\* rational approximation on each half cycle; exact at 0, 1/4 and 1/2 cycle).
SinHalf(y) == (16000 * y * (PI - y)) \div (5 * PI * PI - 4 * y * (PI - y))

Sin(x) ==
  LET y == x % TWO_PI
  IN  IF y <= PI THEN SinHalf(y) ELSE -SinHalf(y - PI)

----------------------------------------------------------------------------
(* KuramotoSimulator.initializeAgents *)

\* The values Math.random() can give one agent, as four sample draws, each
\* inside the range of its initializer.
NumProfiles == 4

Profile(p) ==
  CASE p = 0 -> [beatPhase |-> 980, phrasePhase |-> 995, beatOmega |-> 1000,
                 phraseOmega |-> 250, size |-> 2000, energy |-> 4000,
                 speakingEnergy |-> 7000, maxSpeakingEnergy |-> 9999,
                 speakingCost |-> 2499, rechargeRate |-> 800,
                 territoryPhase |-> 200, forageEfficiency |-> 9999,
                 socialStatus |-> 6999, statusDecayRate |-> 500]
    [] p = 1 -> [beatPhase |-> 470, phrasePhase |-> 100, beatOmega |-> 960,
                 phraseOmega |-> 241, size |-> 5000, energy |-> 1000,
                 speakingEnergy |-> 9900, maxSpeakingEnergy |-> 7000,
                 speakingCost |-> 1500, rechargeRate |-> 1199,
                 territoryPhase |-> 700, forageEfficiency |-> 5000,
                 socialStatus |-> 3000, statusDecayRate |-> 799]
    [] p = 2 -> [beatPhase |-> 460, phrasePhase |-> 500, beatOmega |-> 1040,
                 phraseOmega |-> 259, size |-> 8000, energy |-> 2500,
                 speakingEnergy |-> 7000, maxSpeakingEnergy |-> 7000,
                 speakingCost |-> 2000, rechargeRate |-> 1000,
                 territoryPhase |-> 0, forageEfficiency |-> 7500,
                 socialStatus |-> 5000, statusDecayRate |-> 650]
    [] OTHER -> [beatPhase |-> 430, phrasePhase |-> 750, beatOmega |-> 1010,
                 phraseOmega |-> 250, size |-> 3300, energy |-> 3000,
                 speakingEnergy |-> 8000, maxSpeakingEnergy |-> 9000,
                 speakingCost |-> 2200, rechargeRate |-> 900,
                 territoryPhase |-> 950, forageEfficiency |-> 6000,
                 socialStatus |-> 4000, statusDecayRate |-> 700]

\* One run of Math.random() over the population: the seed rotates the sample
\* draws over the agents.
Seeds == 0 .. (NumProfiles - 1)

NewAgent(i, r) ==
  [id |-> i,
   beatPhase |-> r.beatPhase, phrasePhase |-> r.phrasePhase,
   beatOmega |-> r.beatOmega, phraseOmega |-> r.phraseOmega,
   size |-> r.size, energy |-> r.energy,
   lastBeatPhase |-> 0,
   speakingEnergy |-> r.speakingEnergy,
   maxSpeakingEnergy |-> r.maxSpeakingEnergy,
   speakingCost |-> r.speakingCost, rechargeRate |-> r.rechargeRate,
   territoryPhase |-> r.territoryPhase,
   forageEfficiency |-> r.forageEfficiency,
   lastForageTime |-> 0, isForaging |-> FALSE,
   socialStatus |-> r.socialStatus, statusDecayRate |-> r.statusDecayRate,
   lastSocialTime |-> 0,
   recentNotes |-> << >>,
   degreeWeights |-> [d \in 0 .. 11 |-> 1000]]

initializeAgents(seed) ==
  [i \in Ids |-> NewAgent(i, Profile((i + seed) % NumProfiles))]

----------------------------------------------------------------------------
(* KuramotoSimulator.updateEnergyManagement and attemptForaging *)

\* Math.sin(territoryPhase) * 0.5 + 0.5, in 1/10000
foodAvailability(territoryPhase) == Sin(territoryPhase) * 5 + 5000

\* Mutant of attemptForaging: the 2 s between forage attempts are not
\* awaited
attemptForagingNoCooldown(a, currentTime) ==
  IF a.speakingEnergy * 100 >= a.maxSpeakingEnergy * 95
  THEN [a EXCEPT !.isForaging = FALSE]
  ELSE
    LET tp == a.territoryPhase + (500 * dt * TWO_PI) \div 1000000
        food == foodAvailability(tp)
        energyGain == (a.forageEfficiency * food * 3) \div 100000
        moved == [a EXCEPT !.territoryPhase = tp]
    IN  IF food > 7000 /\ ~a.isForaging
        THEN [moved EXCEPT
                !.isForaging = TRUE,
                !.speakingEnergy =
                   Min(a.maxSpeakingEnergy, a.speakingEnergy + energyGain),
                !.socialStatus = Min(10000, a.socialStatus + energyGain \div 5),
                !.lastForageTime = currentTime,
                !.lastSocialTime = currentTime]
        ELSE IF food <= 3000
        THEN [moved EXCEPT !.isForaging = FALSE]
        ELSE moved

attemptForaging(a, currentTime) ==
  IF a.speakingEnergy * 100 >= a.maxSpeakingEnergy * 95
  THEN [a EXCEPT !.isForaging = FALSE]
  ELSE IF currentTime - a.lastForageTime < 2000
  THEN a
  ELSE
    LET tp == a.territoryPhase + (500 * dt * TWO_PI) \div 1000000
        food == foodAvailability(tp)
        energyGain == (a.forageEfficiency * food * 3) \div 100000
        moved == [a EXCEPT !.territoryPhase = tp]
    IN  IF food > 7000 /\ ~a.isForaging
        THEN [moved EXCEPT
                !.isForaging = TRUE,
                !.speakingEnergy =
                   Min(a.maxSpeakingEnergy, a.speakingEnergy + energyGain),
                !.socialStatus = Min(10000, a.socialStatus + energyGain \div 5),
                !.lastForageTime = currentTime,
                !.lastSocialTime = currentTime]
        ELSE IF food <= 3000
        THEN [moved EXCEPT !.isForaging = FALSE]
        ELSE moved

\* 1. Natural speaking energy recharge
Recharge(a) ==
  [a EXCEPT !.speakingEnergy =
     Min(a.maxSpeakingEnergy,
         a.speakingEnergy + (a.rechargeRate * dt) \div 1000)]

\* Mutant of StatusDecay: the decay starts when the last social event is
\* 1 s old
StatusDecayAtOneSecond(a, currentTime) ==
  IF currentTime - a.lastSocialTime >= 1000
  THEN [a EXCEPT !.socialStatus =
          Max(0, a.socialStatus - (a.statusDecayRate * dt) \div 1000)]
  ELSE a

\* Mutant of StatusDecay: the decay is not floored at 0
StatusDecayUnfloored(a, currentTime) ==
  IF currentTime - a.lastSocialTime > 1000
  THEN [a EXCEPT !.socialStatus =
          a.socialStatus - (a.statusDecayRate * dt) \div 1000]
  ELSE a

\* 3. Social status decay over time
StatusDecay(a, currentTime) ==
  IF currentTime - a.lastSocialTime > 1000
  THEN [a EXCEPT !.socialStatus =
          Max(0, a.socialStatus - (a.statusDecayRate * dt) \div 1000)]
  ELSE a

updateEnergyManagement(ags, currentTime) ==
  [i \in Ids |->
     StatusDecay(attemptForaging(Recharge(ags[i]), currentTime), currentTime)]

----------------------------------------------------------------------------
(* KuramotoSimulator.updatePhases *)

leftNeighbor(i) == (i - 1 + NumAgents) % NumAgents
rightNeighbor(i) == (i + 1) % NumAgents

\* Mutant of WrapPhase: the phase is clamped to the range, not wrapped
WrapPhaseClamped(x) == Max(0, Min(TWO_PI, x))

\* phase % (2 * Math.PI), then + 2 * Math.PI when negative
WrapPhase(x) ==
  LET r == JsMod(x, TWO_PI)
  IN  IF r < 0 THEN r + TWO_PI ELSE r

\* (omega + k * sinSum) * dt * 2 * Math.PI, with k * sinSum in 1/1000000
PhaseAdvance(omega, kSinSum) ==
  ((omega * 1000 + kSinSum) * dt) \div (1000000000 \div TWO_PI)

\* Mutant of UpdateAgentPhases: the neighbours' phases are read from the
\* agents, which the loop is updating, and not from the copied arrays
UpdateAgentPhasesLive(ags, currentBeatPhases, currentPhrasePhases, i, k) ==
  LET a == ags[i]
      l == leftNeighbor(i)
      r == rightNeighbor(i)
      beatSin == Sin(ags[l].beatPhase - a.beatPhase)
                 + Sin(ags[r].beatPhase - a.beatPhase)
      phraseSin == Sin(ags[l].phrasePhase - a.phrasePhase)
                   + Sin(ags[r].phrasePhase - a.phrasePhase)
  IN  [ags EXCEPT ![i] =
         [a EXCEPT
            !.lastBeatPhase = a.beatPhase,
            !.beatPhase =
               WrapPhase(a.beatPhase + PhaseAdvance(a.beatOmega, k * beatSin)),
            !.phrasePhase =
               WrapPhase(a.phrasePhase
                         + PhaseAdvance(a.phraseOmega,
                                        (k * phraseSin) \div 2))]]

\* The body of the loop for agent i: currentBeatPhases and currentPhrasePhases
\* are the arrays copied before the loop.
UpdateAgentPhases(ags, currentBeatPhases, currentPhrasePhases, i, k) ==
  LET a == ags[i]
      l == leftNeighbor(i)
      r == rightNeighbor(i)
      beatSin == Sin(currentBeatPhases[l] - currentBeatPhases[i])
                 + Sin(currentBeatPhases[r] - currentBeatPhases[i])
      phraseSin == Sin(currentPhrasePhases[l] - currentPhrasePhases[i])
                   + Sin(currentPhrasePhases[r] - currentPhrasePhases[i])
      beatCoupling == k * beatSin
      phraseCoupling == (k * phraseSin) \div 2
  IN  [ags EXCEPT ![i] =
         [a EXCEPT
            !.lastBeatPhase = a.beatPhase,
            !.beatPhase =
               WrapPhase(a.beatPhase + PhaseAdvance(a.beatOmega, beatCoupling)),
            !.phrasePhase =
               WrapPhase(a.phrasePhase
                         + PhaseAdvance(a.phraseOmega, phraseCoupling))]]

RECURSIVE PhaseLoop(_, _, _, _, _)
PhaseLoop(ags, currentBeatPhases, currentPhrasePhases, order, k) ==
  IF order = << >> THEN ags
  ELSE PhaseLoop(UpdateAgentPhases(ags, currentBeatPhases,
                                   currentPhrasePhases, Head(order), k),
                 currentBeatPhases, currentPhrasePhases, Tail(order), k)

\* One phase-update step visiting the agents in the given order.
UpdatePhasesInOrder(ags, order, k) ==
  PhaseLoop(ags, [i \in Ids |-> ags[i].beatPhase],
            [i \in Ids |-> ags[i].phrasePhase], order, k)

AscendingOrder == [n \in 1 .. NumAgents |-> n - 1]

updatePhases(ags, k) == UpdatePhasesInOrder(ags, AscendingOrder, k)

----------------------------------------------------------------------------
(* PitchField: conversation scheduler *)

responseWindows == <<2000, 1500, 1000, 800>>

\* timeSinceLastSpeaker when nobody spoke recently
Infinity == 1000000000

\* The entries of h no older than the window, in order
Recent(h, currentTime, window) ==
  SelectSeq(h, LAMBDA e : currentTime - e.time <= window)

\* Mutant of cleanupOldConversation: the history is kept for the 8 s of the
\* conversation window
cleanupOldConversationWindowOnly(h, lce, currentTime) ==
  LET kept == Recent(h, currentTime, 8000)
  IN  [conversationHistory |-> kept,
       lastConversationEnd |->
         IF Len(kept) > 0 /\ currentTime - kept[Len(kept)].time > 3000
         THEN kept[Len(kept)].time
         ELSE lce]

cleanupOldConversation(h, lce, currentTime) ==
  LET kept == Recent(h, currentTime, 10000)
  IN  [conversationHistory |-> kept,
       lastConversationEnd |->
         IF Len(kept) > 0 /\ currentTime - kept[Len(kept)].time > 3000
         THEN kept[Len(kept)].time
         ELSE lce]

\* Mutant of getConversationState: the cooldown runs only after a
\* conversation has ended
getConversationStateNoFirstCooldown(h, lce, currentTime) ==
  LET recentHistory == Recent(h, currentTime, 8000)
  IN  [isInCooldown |-> lce > 0 /\ currentTime - lce < conversationCooldown,
       conversationPosition |-> Len(recentHistory),
       timeSinceLastSpeaker |->
         IF Len(recentHistory) > 0
         THEN currentTime - recentHistory[Len(recentHistory)].time
         ELSE Infinity]

getConversationState(h, lce, currentTime) ==
  LET recentHistory == Recent(h, currentTime, 8000)
  IN  [isInCooldown |-> currentTime - lce < conversationCooldown,
       conversationPosition |-> Len(recentHistory),
       timeSinceLastSpeaker |->
         IF Len(recentHistory) > 0
         THEN currentTime - recentHistory[Len(recentHistory)].time
         ELSE Infinity]

\* Mutant of crossedPhase: a step that starts on the threshold does not
\* cross it
crossedPhaseStrict(lastPhase, currentPhase, threshold) ==
  IF lastPhase > currentPhase
  THEN lastPhase > threshold \/ currentPhase <= threshold
  ELSE lastPhase < threshold /\ currentPhase > threshold

crossedPhase(lastPhase, currentPhase, threshold) ==
  IF lastPhase > currentPhase
  THEN lastPhase > threshold \/ currentPhase <= threshold
  ELSE lastPhase <= threshold /\ currentPhase > threshold

didCrossBeat(lastPhase, currentPhase) ==
  \E beatPos \in {0, PI} : crossedPhase(lastPhase, currentPhase, beatPos)

\* The most recent speaker shouldEmitNote looks at (-1: none)
LastSpeaker(h, currentTime) ==
  LET recentHistory == Recent(h, currentTime, 8000)
  IN  IF Len(recentHistory) > 0
      THEN recentHistory[Len(recentHistory)].agentId
      ELSE -1

\* Mutant of IsNeighborOf: the ring is not closed between the first and the
\* last agent
IsNeighborOfNoWrap(currentId, lastId) ==
  currentId = lastId - 1 \/ currentId = lastId + 1

\* The agent is the left or the right ring neighbour of the last speaker
IsNeighborOf(currentId, lastId) ==
  currentId = (lastId - 1 + NumAgents) % NumAgents
  \/ currentId = (lastId + 1) % NumAgents

\* Mutant of EmitThreshold: the cooldown check is missing
EmitThresholdNoCooldown(a, h, lce, currentTime) ==
  LET cs == getConversationState(h, lce, currentTime)
      lastId == LastSpeaker(h, currentTime)
      probability == a.energy * 150
  IN  IF cs.conversationPosition = 0 THEN a.energy * 20
      ELSE IF cs.conversationPosition < Len(responseWindows)
              /\ cs.timeSinceLastSpeaker
                   <= responseWindows[cs.conversationPosition]
      THEN Min(IF lastId # -1 /\ IsNeighborOf(a.id, lastId)
               THEN (probability * 25) \div 10
               ELSE probability,
               6000000)
      ELSE 0

\* Mutant of EmitThreshold: an agent that cannot pay its speaking cost is
\* refused
EmitThresholdIfAffordable(a, h, lce, currentTime) ==
  LET cs == getConversationState(h, lce, currentTime)
      lastId == LastSpeaker(h, currentTime)
      probability == a.energy * 150
  IN  IF cs.isInCooldown \/ a.speakingEnergy < a.speakingCost THEN 0
      ELSE IF cs.conversationPosition = 0 THEN a.energy * 20
      ELSE IF cs.conversationPosition < Len(responseWindows)
              /\ cs.timeSinceLastSpeaker
                   <= responseWindows[cs.conversationPosition]
      THEN Min(IF lastId # -1 /\ IsNeighborOf(a.id, lastId)
               THEN (probability * 25) \div 10
               ELSE probability,
               6000000)
      ELSE 0

\* Mutant of EmitThreshold: the position is compared with the number of
\* response windows by <=
EmitThresholdFifthSpeaker(a, h, lce, currentTime) ==
  LET cs == getConversationState(h, lce, currentTime)
      lastId == LastSpeaker(h, currentTime)
      probability == a.energy * 150
  IN  IF cs.isInCooldown THEN 0
      ELSE IF cs.conversationPosition = 0 THEN a.energy * 20
      ELSE IF cs.conversationPosition <= Len(responseWindows)
              /\ cs.timeSinceLastSpeaker
                   <= responseWindows[cs.conversationPosition]
      THEN Min(IF lastId # -1 /\ IsNeighborOf(a.id, lastId)
               THEN (probability * 25) \div 10
               ELSE probability,
               6000000)
      ELSE 0

\* Mutant of EmitThreshold: a responder is not held to the response window
EmitThresholdNoWindow(a, h, lce, currentTime) ==
  LET cs == getConversationState(h, lce, currentTime)
      lastId == LastSpeaker(h, currentTime)
      probability == a.energy * 150
  IN  IF cs.isInCooldown THEN 0
      ELSE IF cs.conversationPosition = 0 THEN a.energy * 20
      ELSE IF cs.conversationPosition < Len(responseWindows)
      THEN Min(IF lastId # -1 /\ IsNeighborOf(a.id, lastId)
               THEN (probability * 25) \div 10
               ELSE probability,
               6000000)
      ELSE 0

\* The value Math.random() is compared with, in 1/10000000; 0 stands for
\* the branches that return false without a draw.
EmitThreshold(a, h, lce, currentTime) ==
  LET cs == getConversationState(h, lce, currentTime)
      lastId == LastSpeaker(h, currentTime)
      probability == a.energy * 150
  IN  IF cs.isInCooldown THEN 0
      ELSE IF cs.conversationPosition = 0 THEN a.energy * 20
      ELSE IF cs.conversationPosition < Len(responseWindows)
              /\ cs.timeSinceLastSpeaker
                   <= responseWindows[cs.conversationPosition]
      THEN Min(IF lastId # -1 /\ IsNeighborOf(a.id, lastId)
               THEN (probability * 25) \div 10
               ELSE probability,
               6000000)
      ELSE 0

\* random: the value of Math.random(), in 1/10000
shouldEmitNote(a, h, lce, currentTime, random) ==
  random * 1000 < EmitThreshold(a, h, lce, currentTime)

----------------------------------------------------------------------------
(* PitchField: note creation and learning *)

getCurrentTonicShift(lightLevel) == IF lightLevel > 5000 THEN 0 ELSE 3

\* The octave band of getOctaveFromSize, without its random walk
getOctaveFromSize(size) ==
  IF size < 3300 THEN "high" ELSE IF size < 6700 THEN "mid" ELSE "low"

RECURSIVE SumWeights(_, _)
SumWeights(w, n) == IF n < 0 THEN 0 ELSE w[n] + SumWeights(w, n - 1)

\* The notes of the other agents within 300 ms, in the order of the loops
RECURSIVE NeighborNotes(_, _, _, _)
NeighborNotes(ags, agentId, currentTime, j) ==
  IF j >= NumAgents THEN << >>
  ELSE (IF j = agentId THEN << >>
        ELSE SelectSeq(ags[j].recentNotes,
                       LAMBDA n : Abs(n.time - currentTime) <= 300))
       \o NeighborNotes(ags, agentId, currentTime, j + 1)

\* Mutant of WeightChange: a lone neighbour note a semitone away is
\* penalized too
WeightChangeAnyDensity(degree, neighborDegree, density) ==
  LET interval == Abs(degree - neighborDegree) % 12
  IN  (IF interval \in {3, 4, 5, 7, 9, 0} THEN 20 ELSE 0)
      - (IF interval = 1 THEN 10 ELSE 0)

\* The change one neighbour note makes to the weight of the played degree
WeightChange(degree, neighborDegree, density) ==
  LET interval == Abs(degree - neighborDegree) % 12
  IN  (IF interval \in {3, 4, 5, 7, 9, 0} THEN 20 ELSE 0)
      - (IF interval = 1 /\ density >= 2 THEN 10 ELSE 0)

RECURSIVE TotalChange(_, _, _)
TotalChange(degree, neighborNotes, density) ==
  IF neighborNotes = << >> THEN 0
  ELSE WeightChange(degree, Head(neighborNotes).degree, density)
       + TotalChange(degree, Tail(neighborNotes), density)

\* Mutant of NormalizeWeights: the floor of 0.1 is missing
NormalizeWeightsUnclamped(w) ==
  LET totalWeight == SumWeights(w, 11)
  IN  IF totalWeight > 0
      THEN [d \in 0 .. 11 |-> (w[d] * 12000) \div totalWeight]
      ELSE w

\* Math.max(0.1, (w / totalWeight) * 12) on every weight
NormalizeWeights(w) ==
  LET totalWeight == SumWeights(w, 11)
  IN  IF totalWeight > 0
      THEN [d \in 0 .. 11 |-> Max(100, (w[d] * 12000) \div totalWeight)]
      ELSE w

\* Mutant of PushRecentNote: the oldest note is never dropped
PushRecentNoteUnbounded(recentNotes, noteRecord) ==
  Append(recentNotes, noteRecord)

\* recentNotes.push(noteRecord), then shift() above three entries
PushRecentNote(recentNotes, noteRecord) ==
  LET pushed == Append(recentNotes, noteRecord)
  IN  IF Len(pushed) > 3 THEN Tail(pushed) ELSE pushed

updateAgentLearning(ags, agentId, noteRecord, currentTime) ==
  LET a == ags[agentId]
      neighborNotes == NeighborNotes(ags, agentId, currentTime, 0)
      d == noteRecord.degree
      adjusted ==
        IF Len(neighborNotes) > 0
        THEN [a.degreeWeights EXCEPT
                ![d] = @ + TotalChange(d, neighborNotes, Len(neighborNotes))]
        ELSE a.degreeWeights
  IN  [ags EXCEPT ![agentId] =
         [a EXCEPT
            !.recentNotes = PushRecentNote(a.recentNotes, noteRecord),
            !.degreeWeights = NormalizeWeights(adjusted)]]

\* Mutant of createNoteFromAgent: the note starts at the audio time itself
createNoteFromAgentNoLookAhead(a, currentAudioTime, lightLevel, degree) ==
  [startTime |-> currentAudioTime,
   pitchClass |-> (degree + getCurrentTonicShift(lightLevel)) % 12,
   octaveBand |-> getOctaveFromSize(a.size),
   amp |-> (a.energy * 6) \div 100]

\* The NoteEvent: the frequency is given by its octave band and pitch class.
createNoteFromAgent(a, currentAudioTime, lightLevel, degree) ==
  [startTime |-> currentAudioTime + lookAhead,
   pitchClass |-> (degree + getCurrentTonicShift(lightLevel)) % 12,
   octaveBand |-> getOctaveFromSize(a.size),
   amp |-> (a.energy * 6) \div 100]

----------------------------------------------------------------------------
(* KuramotoSimulator: social benefits of speaking *)

\* Circular beat-phase distance
normalizedDiff(p, q) == Min(Abs(p - q), TWO_PI - Abs(p - q))

\* Agents within 60 degrees (PI / 3) of the speaker
nearbyAgents(ags, speakerId) ==
  {o \in Ids : o # speakerId
               /\ 3 * normalizedDiff(ags[speakerId].beatPhase,
                                     ags[o].beatPhase) < PI}

\* Mutant of SocialFeeding: the bonus is added without the clamp at
\* maxSpeakingEnergy
SocialFeedingUnclamped(speaker, nearbyCount) ==
  IF nearbyCount > 0
  THEN [speaker EXCEPT !.speakingEnergy =
          speaker.speakingEnergy + Min(1000, nearbyCount * 200)]
  ELSE speaker

\* 1. Social feeding
SocialFeeding(speaker, nearbyCount) ==
  IF nearbyCount > 0
  THEN [speaker EXCEPT !.speakingEnergy =
          Min(speaker.maxSpeakingEnergy,
              speaker.speakingEnergy + Min(1000, nearbyCount * 200))]
  ELSE speaker

\* 2. Validation rewards
checkForValidationRewards(speaker, ags, h, currentTime) ==
  LET recentResponses ==
        SelectSeq(h, LAMBDA e : e.agentId # speaker.id
                                /\ currentTime - e.time <= 3000
                                /\ currentTime - e.time >= 100)
  IN  IF Len(recentResponses) > 0
      THEN LET responder == ags[recentResponses[Len(recentResponses)].agentId]
               validationBonus == (8 * responder.socialStatus) \div 100
           IN  [speaker EXCEPT
                  !.speakingEnergy =
                     Min(speaker.maxSpeakingEnergy,
                         speaker.speakingEnergy + validationBonus),
                  !.socialStatus =
                     Min(10000, speaker.socialStatus + validationBonus \div 2)]
      ELSE speaker

\* Mutant of applySocialBenefitsToListener: a foraging listener is served
\* like the others
applySocialBenefitsToListenerForaging(listener, speaker, currentTime) ==
  [listener EXCEPT
     !.speakingEnergy =
        Min(listener.maxSpeakingEnergy,
            listener.speakingEnergy + (2 * speaker.socialStatus) \div 100),
     !.lastSocialTime = currentTime]

\* 3. Benefits to one listener
applySocialBenefitsToListener(listener, speaker, currentTime) ==
  IF ~listener.isForaging
  THEN [listener EXCEPT
          !.speakingEnergy =
             Min(listener.maxSpeakingEnergy,
                 listener.speakingEnergy + (2 * speaker.socialStatus) \div 100),
          !.lastSocialTime = currentTime]
  ELSE listener

applySocialBenefitsFromSpeaking(ags, speakerId, h, currentTime) ==
  LET nearby == nearbyAgents(ags, speakerId)
      fed == SocialFeeding(ags[speakerId], Cardinality(nearby))
      speaker == checkForValidationRewards(fed, ags, h, currentTime)
  IN  [j \in Ids |->
         IF j = speakerId
         THEN [speaker EXCEPT !.lastSocialTime = currentTime]
         ELSE IF j \in nearby
         THEN applySocialBenefitsToListener(ags[j], speaker, currentTime)
         ELSE ags[j]]

----------------------------------------------------------------------------
(* PitchField.generateNotes with the onSpeaking callback of update *)

\* Values of Math.random() in shouldEmitNote (1/10000) and degrees that
\* selectDegreeWithLearning can return
RandomDraws == {0, 50, 400, 9999}
DegreeDraws == {0, 1}

\* What the scheduler saw and decided for one agent that crossed a beat
Evaluation(st, a, lce, currentTime, granted, degree) ==
  LET cs == getConversationState(st.conversationHistory, lce, currentTime)
  IN  [agentId |-> a.id,
       isInCooldown |-> cs.isInCooldown,
       conversationPosition |-> cs.conversationPosition,
       timeSinceLastSpeaker |-> cs.timeSinceLastSpeaker,
       lastSpeaker |-> LastSpeaker(st.conversationHistory, currentTime),
       threshold |-> EmitThreshold(a, st.conversationHistory, lce, currentTime),
       granted |-> granted,
       degree |-> degree,
       energyAtGrant |-> a.speakingEnergy,
       energyBeforeBenefits |-> a.speakingEnergy,
       beforeBenefits |-> st.agents,
       afterBenefits |-> st.agents]

\* Mutant of NoteRecord: the degree is stored after the tonic shift
NoteRecordShifted(i, degree, currentTime, lightLevel) ==
  [degree |-> (degree + getCurrentTonicShift(lightLevel)) % 12,
   time |-> currentTime, agentId |-> i]

\* The note record createNoteFromAgent hands to updateAgentLearning
NoteRecord(i, degree, currentTime, lightLevel) ==
  [degree |-> degree, time |-> currentTime, agentId |-> i]

\* Mutant of Speak: the speaker is not recorded in the conversation history
\* before the next agent is evaluated
SpeakUnrecorded(st, i, lce, currentTime, lightLevel, degree) ==
  LET a == st.agents[i]
      learned == updateAgentLearning(
                   st.agents, i,
                   NoteRecord(i, degree, currentTime, lightLevel),
                   currentTime)
  IN  [agents |-> applySocialBenefitsFromSpeaking(
                    learned, i, st.conversationHistory, currentTime),
       conversationHistory |-> st.conversationHistory,
       notes |-> Append(st.notes,
                        createNoteFromAgent(a, currentTime, lightLevel, degree)),
       playing |-> st.playing \cup {i},
       evals |-> Append(st.evals,
                        Evaluation(st, a, lce, currentTime, TRUE, degree))]

\* The body of the if for an agent that is granted emission
Speak(st, i, lce, currentTime, lightLevel, degree) ==
  LET a == st.agents[i]
      note == createNoteFromAgent(a, currentTime, lightLevel, degree)
      learned == updateAgentLearning(
                   st.agents, i,
                   NoteRecord(i, degree, currentTime, lightLevel),
                   currentTime)
      h == Append(st.conversationHistory,
                  [time |-> currentTime, agentId |-> i])
      benefited == applySocialBenefitsFromSpeaking(learned, i, h, currentTime)
  IN  [agents |-> benefited,
       conversationHistory |-> h,
       notes |-> Append(st.notes, note),
       playing |-> st.playing \cup {i},
       evals |-> Append(st.evals,
                        [Evaluation(st, a, lce, currentTime, TRUE, degree)
                           EXCEPT !.energyBeforeBenefits =
                                     learned[i].speakingEnergy,
                                  !.beforeBenefits = learned,
                                  !.afterBenefits = benefited])]

Silent(st, i, lce, currentTime) ==
  [st EXCEPT !.evals =
     Append(@, Evaluation(st, st.agents[i], lce, currentTime, FALSE, -1))]

\* The outcomes of one iteration of the loop over the agents
EvaluateAgent(st, i, lce, currentTime, lightLevel, degrees) ==
  LET a == st.agents[i]
  IN  IF ~didCrossBeat(a.lastBeatPhase, a.beatPhase) THEN {st}
      ELSE UNION {
             IF shouldEmitNote(a, st.conversationHistory, lce, currentTime,
                               random)
             THEN {Speak(st, i, lce, currentTime, lightLevel, degree) :
                     degree \in degrees}
             ELSE {Silent(st, i, lce, currentTime)} :
             random \in RandomDraws}

RECURSIVE NotesLoop(_, _, _, _, _, _)
NotesLoop(sts, i, lce, currentTime, lightLevel, degrees) ==
  IF i >= NumAgents THEN sts
  ELSE NotesLoop(
         UNION {EvaluateAgent(st, i, lce, currentTime, lightLevel, degrees) :
                  st \in sts},
         i + 1, lce, currentTime, lightLevel, degrees)

\* All the results generateNotes can return on these agents
generateNotes(ags, h, lce, currentAudioTime, lightLevel, degrees) ==
  LET cleaned == cleanupOldConversation(h, lce, currentAudioTime)
      start == [agents |-> ags,
                conversationHistory |-> cleaned.conversationHistory,
                notes |-> << >>, playing |-> {}, evals |-> << >>]
  IN  {[agents |-> st.agents,
        conversationHistory |-> st.conversationHistory,
        lastConversationEnd |-> cleaned.lastConversationEnd,
        notes |-> st.notes, playing |-> st.playing, evals |-> st.evals] :
         st \in NotesLoop({start}, 0, cleaned.lastConversationEnd,
                          currentAudioTime, lightLevel, degrees)}

\* KuramotoSimulator.update: all its results
update(ags, k, h, lce, currentTime, lightLevel, degrees) ==
  generateNotes(
    updatePhases(updateEnergyManagement(ags, currentTime), k),
    h, lce, currentTime,
    IF lightLevel = 0 THEN 5000 ELSE lightLevel, degrees)

----------------------------------------------------------------------------
(* EnvironmentSimulator and the message listener *)

\* An outbound message
Msg(type, tAudio, notes, phases, environment) ==
  [type |-> type, tAudio |-> tAudio, notes |-> notes, phases |-> phases,
   environment |-> environment]

PhaseSnapshot(ags) ==
  [n \in 1 .. NumAgents |->
     [id |-> ags[n - 1].id, beatPhase |-> ags[n - 1].beatPhase,
      phrasePhase |-> ags[n - 1].phrasePhase]]

Clamp(x, lo, hi) == Max(lo, Min(hi, x))

\* updateEnvironmentState for the light parameter, the only one the
\* simulation reads: steps is this.time in 200 ms steps, walk the random walk
NewBaseLight(base, walk) == Clamp(base + walk, 1000, 9000)
NewLight(base, steps) ==
  Clamp(base + (Sin((steps * 162) \div 100) * 15) \div 10, 0, 10000)

WalkDraws == {-5, 4}

\* Audio-clock values the host can send: values of AudioContext.currentTime,
\* which never decreases and can repeat
AudioTimes == {1000, 15000, 15100, 19000, 26000}
WorkerTimes == {15000}

\* setInterval returns an id that no active interval has
FreshTimerId(active) ==
  CHOOSE n \in 1 .. (Cardinality(active) + 1) :
    /\ \A tm \in active : tm.id # n
    /\ \A m \in 1 .. (n - 1) : \E tm \in active : tm.id = m

\* Mutant of Start: a start is not ignored by a running simulator
StartAgain ==
  /\ LET envTimer == [id |-> FreshTimerId(timers), kind |-> "env"]
         phaseTimer == [id |-> FreshTimerId(timers \cup {envTimer}),
                        kind |-> "phase"]
     IN  /\ isRunning' = TRUE
         /\ time' = 0
         /\ envIntervalId' = envTimer.id
         /\ phaseIntervalId' = phaseTimer.id
         /\ timers' = timers \cup {envTimer, phaseTimer}
  /\ posted' = << >>
  /\ run' = [run EXCEPT !.everStarted = TRUE,
                        !.afterStop = FALSE,
                        !.restarted = ~isRunning /\ run.everStarted,
                        !.handled = "start"]
  /\ UNCHANGED <<agents, coupling, currentlyPlayingAgents,
                 conversationHistory, lastConversationEnd, currentLightLevel,
                 lastVisualizationTime, light, baseLight, pendingRequests,
                 lastTick,
                 voices, noteEvents, currentFrame, voiceOut, notesReceived>>

Start ==
  /\ IF isRunning
     THEN UNCHANGED <<isRunning, time, envIntervalId, phaseIntervalId, timers>>
     ELSE LET envTimer == [id |-> FreshTimerId(timers), kind |-> "env"]
              phaseTimer == [id |-> FreshTimerId(timers \cup {envTimer}),
                             kind |-> "phase"]
          IN  /\ isRunning' = TRUE
              /\ time' = 0
              /\ envIntervalId' = envTimer.id
              /\ phaseIntervalId' = phaseTimer.id
              /\ timers' = timers \cup {envTimer, phaseTimer}
  /\ posted' = << >>
  /\ run' = [run EXCEPT !.everStarted = TRUE,
                        !.afterStop = FALSE,
                        !.restarted = ~isRunning /\ run.everStarted,
                        !.handled = "start"]
  /\ UNCHANGED <<agents, coupling, currentlyPlayingAgents,
                 conversationHistory, lastConversationEnd, currentLightLevel,
                 lastVisualizationTime, light, baseLight, pendingRequests,
                 lastTick,
                 voices, noteEvents, currentFrame, voiceOut, notesReceived>>

Stop ==
  /\ IF ~isRunning
     THEN UNCHANGED <<isRunning, envIntervalId, phaseIntervalId, timers>>
     ELSE /\ isRunning' = FALSE
          /\ envIntervalId' = 0
          /\ phaseIntervalId' = 0
          /\ timers' = {tm \in timers :
                          tm.id # envIntervalId /\ tm.id # phaseIntervalId}
  /\ posted' = << >>
  /\ run' = [run EXCEPT !.afterStop = TRUE, !.restarted = FALSE,
                        !.handled = "stop"]
  /\ UNCHANGED <<agents, coupling, currentlyPlayingAgents,
                 conversationHistory, lastConversationEnd, currentLightLevel,
                 time, lastVisualizationTime, light, baseLight,
                 pendingRequests, lastTick,
                 voices, noteEvents, currentFrame, voiceOut, notesReceived>>

\* The 200 ms interval fires: updateEnvironmentState, postEnvironmentUpdate
EnvTimerFire(walk) ==
  /\ \E tm \in timers : tm.kind = "env"
  /\ run.envTicks < MaxEnvTicks
  /\ time' = time + 1
  /\ baseLight' = NewBaseLight(baseLight, walk)
  /\ light' = NewLight(baseLight', time')
  /\ posted' = <<Msg("envUpdate", 0, << >>, << >>, light')>>
  /\ run' = [run EXCEPT !.envTicks = @ + 1, !.restarted = FALSE,
                        !.handled = "envTimer"]
  /\ UNCHANGED <<agents, coupling, currentlyPlayingAgents,
                 conversationHistory, lastConversationEnd, currentLightLevel,
                 isRunning, envIntervalId, phaseIntervalId,
                 lastVisualizationTime, timers, pendingRequests,
                 lastTick,
                 voices, noteEvents, currentFrame, voiceOut, notesReceived>>

\* Mutant of PhaseTimerFire: the firing also advances the oscillators by
\* one step of a locally kept clock
PhaseTimerFireLocalClock(maxTicks) ==
  /\ \E tm \in timers : tm.kind = "phase"
  /\ pendingRequests < MaxPending
  /\ run.ticks + pendingRequests < maxTicks
  /\ pendingRequests' = pendingRequests + 1
  /\ posted' = <<Msg("requestAudioTime", 0, << >>, << >>, 0)>>
  /\ run' = [run EXCEPT !.restarted = FALSE, !.handled = "phaseTimer"]
  /\ agents' = updatePhases(agents, coupling)
  /\ UNCHANGED <<coupling, currentlyPlayingAgents,
                 conversationHistory, lastConversationEnd, currentLightLevel,
                 isRunning, envIntervalId, phaseIntervalId, time,
                 lastVisualizationTime, light, baseLight, timers,
                 lastTick,
                 voices, noteEvents, currentFrame, voiceOut, notesReceived>>

\* The 50 ms interval fires: EnvironmentSimulator.updatePhases
PhaseTimerFire(maxTicks) ==
  /\ \E tm \in timers : tm.kind = "phase"
  /\ pendingRequests < MaxPending
  /\ run.ticks + pendingRequests < maxTicks
  /\ pendingRequests' = pendingRequests + 1
  /\ posted' = <<Msg("requestAudioTime", 0, << >>, << >>, 0)>>
  /\ run' = [run EXCEPT !.restarted = FALSE, !.handled = "phaseTimer"]
  /\ UNCHANGED <<agents, coupling, currentlyPlayingAgents,
                 conversationHistory, lastConversationEnd, currentLightLevel,
                 isRunning, envIntervalId, phaseIntervalId, time,
                 lastVisualizationTime, light, baseLight, timers,
                 lastTick,
                 voices, noteEvents, currentFrame, voiceOut, notesReceived>>

\* The notes every agent has emitted so far, in emission order, extended by
\* the grants of one tick
RECURSIVE EmittedAfter(_, _, _)
EmittedAfter(emitted, evals, currentTime) ==
  IF evals = << >> THEN emitted
  ELSE LET e == Head(evals)
       IN  EmittedAfter(
             IF e.granted
             THEN [emitted EXCEPT ![e.agentId] =
                     Append(@, [degree |-> e.degree, time |-> currentTime,
                                agentId |-> e.agentId])]
             ELSE emitted,
             Tail(evals), currentTime)

\* Mutant of IgnoredMsg: a dropped message is answered with an error message
IgnoredMsgAnswered ==
  /\ posted' = <<Msg("error", 0, << >>, << >>, 0)>>
  /\ run' = [run EXCEPT !.restarted = FALSE, !.handled = "dropped"]
  /\ UNCHANGED <<agents, coupling, currentlyPlayingAgents,
                 conversationHistory, lastConversationEnd, currentLightLevel,
                 isRunning, envIntervalId, phaseIntervalId, time,
                 lastVisualizationTime, light, baseLight, timers,
                 pendingRequests, lastTick,
                 voices, noteEvents, currentFrame, voiceOut, notesReceived>>

\* Mutant of TickMessages: the notes message is posted whether or not notes
\* were generated
TickMessagesAlwaysNotes(currentAudioTime, r, viz) ==
  <<Msg("phases", currentAudioTime, << >>, PhaseSnapshot(r.agents), 0),
    Msg("notes", currentAudioTime, r.notes, << >>, 0)>>
  \o (IF viz
      THEN <<Msg("visualization", currentAudioTime, << >>,
                 PhaseSnapshot(r.agents), light)>>
      ELSE << >>)

\* The messages updatePhasesWithAudioTime posts, in order
TickMessages(currentAudioTime, r, viz) ==
  <<Msg("phases", currentAudioTime, << >>, PhaseSnapshot(r.agents), 0)>>
  \o (IF Len(r.notes) > 0
      THEN <<Msg("notes", currentAudioTime, r.notes, << >>, 0)>>
      ELSE << >>)
  \o (IF viz
      THEN <<Msg("visualization", currentAudioTime, << >>,
                 PhaseSnapshot(r.agents), light)>>
      ELSE << >>)

\* updatePhasesWithAudioTime(currentAudioTime) with the result r of update
UpdatePhasesWithAudioTime(currentAudioTime, r) ==
  LET viz == currentAudioTime - lastVisualizationTime >= 33
      emitted == Len(r.notes) > 0
  IN  /\ agents' = r.agents
      /\ conversationHistory' = r.conversationHistory
      /\ lastConversationEnd' = r.lastConversationEnd
      /\ currentlyPlayingAgents' = r.playing
      /\ currentLightLevel' = IF light = 0 THEN 5000 ELSE light
      /\ lastVisualizationTime' =
           IF viz THEN currentAudioTime ELSE lastVisualizationTime
      /\ posted' = TickMessages(currentAudioTime, r, viz)
      /\ lastTick' =
           [n |-> run.ticks + 1, time |-> currentAudioTime,
            prevTickTime |-> run.prevTickTime,
            prevEmission |-> run.lastEmission,
            afterStop |-> run.afterStop,
            before |-> agents,
            historyBefore |-> conversationHistory,
            lceBefore |-> lastConversationEnd,
            lightLevel |-> light,
            playingBefore |-> currentlyPlayingAgents,
            evals |-> r.evals, notes |-> r.notes]
      /\ run' = [run EXCEPT
                   !.ticks = @ + 1,
                   !.prevTickTime = currentAudioTime,
                   !.lastEmission = IF emitted THEN currentAudioTime ELSE @,
                   !.emitted = EmittedAfter(@, r.evals, currentAudioTime),
                   !.restarted = FALSE,
                   !.handled = "audioTime"]

\* An audioTime message carrying a value, the host's answer to a request
AudioTimeMsg(currentAudioTime, maxTicks, degrees) ==
  /\ pendingRequests > 0
  /\ run.ticks < maxTicks
  /\ currentAudioTime >= run.prevTickTime
  /\ pendingRequests' = pendingRequests - 1
  /\ \E r \in update(agents, coupling, conversationHistory,
                     lastConversationEnd, currentAudioTime, light, degrees) :
       UpdatePhasesWithAudioTime(currentAudioTime, r)
  /\ UNCHANGED <<coupling, isRunning, envIntervalId, phaseIntervalId, time,
                 light, baseLight, timers,
                 voices, noteEvents, currentFrame, voiceOut, notesReceived>>

\* Names and values (1/1000) a setParameter message carries
ParameterNames == {"couplingStrength", "tempoBias"}
ParameterValues == {0, 300}

\* case "setParameter" of the listener: handleParameterChange logs the name
\* and the value and changes no field of the simulator; run remembers the
\* coupling strength the host asked for
SetParameter(parameterName, value) ==
  /\ posted' = << >>
  /\ run' = [run EXCEPT
               !.restarted = FALSE,
               !.handled = "setParameter",
               !.parameter = parameterName,
               !.couplingRequested =
                  IF parameterName = "couplingStrength"
                  THEN value ELSE run.couplingRequested]
  /\ UNCHANGED <<agents, coupling, currentlyPlayingAgents,
                 conversationHistory, lastConversationEnd, currentLightLevel,
                 isRunning, envIntervalId, phaseIntervalId, time,
                 lastVisualizationTime, light, baseLight, timers,
                 pendingRequests, lastTick,
                 voices, noteEvents, currentFrame, voiceOut, notesReceived>>

\* Messages the listener drops: an audioTime or a setParameter without a
\* value, and an unknown type
IgnoredMsg ==
  /\ posted' = << >>
  /\ run' = [run EXCEPT !.restarted = FALSE, !.handled = "dropped"]
  /\ UNCHANGED <<agents, coupling, currentlyPlayingAgents,
                 conversationHistory, lastConversationEnd, currentLightLevel,
                 isRunning, envIntervalId, phaseIntervalId, time,
                 lastVisualizationTime, light, baseLight, timers,
                 pendingRequests, lastTick,
                 voices, noteEvents, currentFrame, voiceOut, notesReceived>>

----------------------------------------------------------------------------
(* The creature voice processor (audio worklet)                            *)
(*                                                                         *)
(* Times are in milliseconds, envelope levels in 1/10000, frames are       *)
(* samples.  The oscillator and the effects do not act on a voice's state: *)
(* a voice's sample is kept as its envelope level, 0 when process returns  *)
(* 0.                                                                      *)

\* Voice states
VOICE_IDLE == 0
VOICE_ATTACK == 1
VOICE_SUSTAIN == 2
VOICE_RELEASE == 3

sampleRate == 2       \* frames per second of the audio context explored
blockSize == 2        \* frames rendered by one call of process
numVoices == 2        \* voices of the pool explored (the code creates 32)
MaxNotes == 3         \* note events received in a run
MaxFrame == 6         \* the frame counter is followed up to this frame

attackTime == 20      \* Voice.attackTime, 0.02 s
decayTime == 100      \* Voice.decayTime, 0.1 s
sustainLevel == 4000  \* Voice.sustainLevel, 0.4
releaseTime == 1500   \* Voice.releaseTime, 1.5 s
envFloor == 10        \* the level 0.001 under which a voice is silent

VoiceIds == 1..numVoices

\* exp(-f/1000) for 0 <= f < 1000, by its series, in 1/10000
expFraction(f) ==
  LET t1 == f * 10
      t2 == (t1 * f) \div 2000
      t3 == (t2 * f) \div 3000
      t4 == (t3 * f) \div 4000
      t5 == (t4 * f) \div 5000
      t6 == (t5 * f) \div 6000
  IN  10000 - t1 + t2 - t3 + t4 - t5 + t6

\* Math.exp(-x/1000) for x >= 0, in 1/10000
RECURSIVE expNeg(_)
expNeg(x) ==
  IF x >= 20000 THEN 0
  ELSE IF x >= 1000 THEN (expNeg(x - 1000) * 3679) \div 10000
  ELSE expFraction(x)

\* Math.round(ms * sampleRate) of a time given in milliseconds
toFrames(ms) == (ms * sampleRate + 500) \div 1000

\* new Voice(id)
NewVoice ==
  [state |-> VOICE_IDLE, envLevel |-> 0, envStage |-> "idle", envTimer |-> 0,
   startFrame |-> 0, endFrame |-> 0]

noteOn(v, startFrame, dur) ==
  [v EXCEPT !.state = VOICE_ATTACK, !.startFrame = startFrame,
            !.endFrame = startFrame + dur, !.envLevel = 0,
            !.envStage = "attack", !.envTimer = 0]

noteOff(v) ==
  IF v.state = VOICE_IDLE THEN v
  ELSE [v EXCEPT !.state = VOICE_RELEASE, !.envStage = "release",
                 !.envTimer = 0]

updateEnvelope(v) ==
  LET frameTime == 1000 \div sampleRate
      envTimer == v.envTimer + frameTime
  IN  CASE v.envStage = "attack" ->
             LET level == 10000
                          - expNeg((envTimer * 1000) \div ((attackTime * 3) \div 10))
             IN  IF envTimer >= attackTime
                 THEN [v EXCEPT !.envLevel = level, !.envStage = "decay",
                                !.envTimer = 0]
                 ELSE [v EXCEPT !.envLevel = level, !.envTimer = envTimer]
        [] v.envStage = "decay" ->
             LET decayProgress3 == (envTimer * 3000) \div decayTime
                 level == sustainLevel
                          + ((10000 - sustainLevel) * expNeg(decayProgress3))
                            \div 10000
             IN  IF envTimer >= decayTime
                 THEN [v EXCEPT !.envLevel = sustainLevel,
                                !.envStage = "sustain", !.envTimer = envTimer]
                 ELSE [v EXCEPT !.envLevel = level, !.envTimer = envTimer]
        [] v.envStage = "sustain" ->
             [v EXCEPT !.envLevel = sustainLevel, !.envTimer = envTimer]
        [] v.envStage = "release" ->
             LET level == (sustainLevel
                           * expNeg((envTimer * 1000) \div (releaseTime \div 2)))
                          \div 10000
             IN  IF level <= envFloor
                 THEN [v EXCEPT !.envLevel = 0, !.envStage = "idle",
                                !.envTimer = envTimer]
                 ELSE [v EXCEPT !.envLevel = level, !.envTimer = envTimer]
        [] OTHER -> [v EXCEPT !.envTimer = envTimer]

\* Voice.process: the voice after the frame and the envelope of its sample
process(v, frame) ==
  IF v.state = VOICE_IDLE THEN [voice |-> v, out |-> 0]
  ELSE LET ended == IF frame >= v.endFrame /\ v.envStage # "release"
                    THEN noteOff(v) ELSE v
           env == updateEnvelope(ended)
       IN  IF env.envLevel <= envFloor
           THEN [voice |-> IF env.envStage = "release"
                           THEN [env EXCEPT !.state = VOICE_IDLE,
                                            !.envStage = "idle"]
                           ELSE env,
                 out |-> 0]
           ELSE [voice |-> env, out |-> env.envLevel]

isActive(v) == v.state # VOICE_IDLE

\* The voice triggerNote gives the note to: the first idle one, else the
\* first of those that started earliest
voiceFor(vs) ==
  IF \E k \in VoiceIds : ~isActive(vs[k])
  THEN CHOOSE k \in VoiceIds :
         ~isActive(vs[k]) /\ \A j \in VoiceIds : j < k => isActive(vs[j])
  ELSE CHOOSE k \in VoiceIds :
         /\ \A j \in VoiceIds : vs[k].startFrame <= vs[j].startFrame
         /\ \A j \in VoiceIds : j < k => vs[j].startFrame > vs[k].startFrame

triggerNote(vs, event) ==
  [vs EXCEPT ![voiceFor(vs)] = noteOn(@, event.startFrame, event.dur)]

\* st: [voices, noteEvents, out, stolen]
RECURSIVE processNoteEvents(_, _)
processNoteEvents(st, frame) ==
  IF st.noteEvents # << >> /\ Head(st.noteEvents).startFrame <= frame
  THEN processNoteEvents(
         [st EXCEPT !.voices = triggerNote(@, Head(st.noteEvents)),
                    !.noteEvents = Tail(@),
                    !.stolen = IF \A k \in VoiceIds : isActive(st.voices[k])
                               THEN @ + 1 ELSE @],
         frame)
  ELSE st

\* One frame of the block: the notes due are triggered, then every voice
\* renders its sample.  Each intermediate state is bound as a value, so that
\* it is computed once.
renderFrame(st, frameIndex) ==
  CHOOSE after \in
    {[due EXCEPT
        !.voices = [k \in VoiceIds |-> process(due.voices[k], frameIndex).voice],
        !.out = [k \in VoiceIds |-> process(due.voices[k], frameIndex).out]] :
     due \in {processNoteEvents(st, frameIndex)}} : TRUE

\* The frames of one block, one after the other
RECURSIVE renderFrames(_, _)
renderFrames(st, i) ==
  IF i >= blockSize THEN st
  ELSE CHOOSE done \in
         {renderFrames(after, i + 1) :
          after \in {renderFrame(st, currentFrame + i)}} : TRUE

\* noteEvents.sort by startFrame, after the push of a new event
RECURSIVE sortedWith(_, _)
sortedWith(events, event) ==
  IF events = << >> THEN <<event>>
  ELSE IF Head(events).startFrame <= event.startFrame
       THEN <<Head(events)>> \o sortedWith(Tail(events), event)
       ELSE <<event>> \o events

workerVars == <<agents, coupling, currentlyPlayingAgents, conversationHistory,
                lastConversationEnd, currentLightLevel, isRunning,
                envIntervalId, phaseIntervalId, time, lastVisualizationTime,
                light, baseLight, timers, pendingRequests, posted, lastTick,
                run>>

\* A 'notes' message with one event: startTime and dur in milliseconds
HandleMessage(startTime, dur) ==
  /\ notesReceived.notes < MaxNotes
  /\ toFrames(startTime) + toFrames(dur) <= MaxFrame
  /\ noteEvents' = sortedWith(noteEvents,
                              [startFrame |-> toFrames(startTime),
                               dur |-> toFrames(dur)])
  /\ notesReceived' = [notesReceived EXCEPT !.notes = @ + 1]
  /\ UNCHANGED <<voices, currentFrame, voiceOut>>
  /\ UNCHANGED workerVars

\* CreatureProcessor.process: one block of frames.  The voices compare the
\* frame counter with end frames of at most MaxFrame only, so the counter
\* is followed no further.
Process ==
  \E st \in {renderFrames([voices |-> voices, noteEvents |-> noteEvents,
                           out |-> voiceOut,
                           stolen |-> notesReceived.stolen], 0)} :
      /\ voices' = st.voices
      /\ noteEvents' = st.noteEvents
      /\ voiceOut' = st.out
      /\ notesReceived' = [notesReceived EXCEPT !.stolen = st.stolen]
      /\ currentFrame' = Min(currentFrame + blockSize, MaxFrame)
      /\ UNCHANGED workerVars

----------------------------------------------------------------------------
(* Specifications *)

\* starts: the populations the worker can hold, each with the notes its
\* agents have emitted and the number of conversations held
InitFrom(starts) ==
  /\ \E start \in starts :
       /\ agents = start.agents
       /\ run = [ticks |-> 0, prevTickTime |-> 0, lastEmission |-> -1,
                 envTicks |-> 0, everStarted |-> FALSE, afterStop |-> FALSE,
                 restarted |-> FALSE, emitted |-> start.emitted,
                 rounds |-> start.rounds, couplingRequested |-> -1,
                 handled |-> "none", parameter |-> ""]
  /\ coupling = InitialCoupling
  /\ currentlyPlayingAgents = {}
  /\ conversationHistory = << >>
  /\ lastConversationEnd = 0
  /\ currentLightLevel = 5000
  /\ isRunning = FALSE
  /\ envIntervalId = 0
  /\ phaseIntervalId = 0
  /\ time = 0
  /\ lastVisualizationTime = 0
  /\ light = 5000
  /\ baseLight = 5000
  /\ timers = {}
  /\ pendingRequests = 0
  /\ posted = << >>
  /\ lastTick = [n |-> 0, time |-> 0, prevTickTime |-> 0, prevEmission |-> -1,
                 afterStop |-> FALSE, before |-> agents,
                 historyBefore |-> << >>, lceBefore |-> 0,
                 lightLevel |-> 5000, playingBefore |-> {},
                 evals |-> << >>, notes |-> << >>]
  /\ voices = [k \in VoiceIds |-> NewVoice]
  /\ noteEvents = << >>
  /\ currentFrame = 0
  /\ voiceOut = [k \in VoiceIds |-> 0]
  /\ notesReceived = [notes |-> 0, stolen |-> 0]

\* A freshly constructed population: nothing emitted, no conversation held
Fresh(seed) ==
  [agents |-> initializeAgents(seed), emitted |-> [i \in Ids |-> << >>],
   rounds |-> 0]

InitSeeded(seeds) == InitFrom({Fresh(seed) : seed \in seeds})

Init == InitSeeded(Seeds)

\* The worker and its timers, with ticks at one clock value
WorkerSeeds == {0, 2}
InitWorker == InitSeeded(WorkerSeeds)

Next ==
  \/ Start
  \/ Stop
  \/ \E walk \in WalkDraws : EnvTimerFire(walk)
  \/ PhaseTimerFire(MaxWorkerTicks)
  \/ \E t \in WorkerTimes : AudioTimeMsg(t, MaxWorkerTicks, {0})
  \/ \E parameterName \in ParameterNames :
       \E value \in ParameterValues : SetParameter(parameterName, value)
  \/ IgnoredMsg

Spec == InitWorker /\ [][Next]_vars

\* A worker, started by a host that sends start only to a stopped worker,
\* ticking at the clock values of AudioTimes
StartStopped == ~isRunning /\ Start

NextTalk ==
  \/ StartStopped
  \/ PhaseTimerFire(MaxTicks)
  \/ \E t \in AudioTimes : AudioTimeMsg(t, MaxTicks, DegreeDraws)

SpecTalk == Init /\ [][NextTalk]_vars

\* The same worker ticking every 50 ms from audio time 0
NextLong ==
  \/ StartStopped
  \/ PhaseTimerFire(MaxLongTicks)
  \/ AudioTimeMsg(dt * (run.ticks + 1), MaxLongTicks, DegreeDraws)

SpecLong == Init /\ [][NextLong]_vars

\* The same worker ticking at clock values that lie 0.5 s to 2.5 s apart,
\* on both sides of each response window
WindowTimes == {15000, 16000, 17000, 17500}

NextWindows ==
  \/ StartStopped
  \/ PhaseTimerFire(MaxTicks)
  \/ \E t \in WindowTimes : AudioTimeMsg(t, MaxTicks, {0})

SpecWindows == Init /\ [][NextWindows]_vars

\* Populations whose agents all drew the same values, so that they beat in
\* unison at 1 Hz and the coupling terms are 0: a tick advances every beat
\* phase by exactly 0.05 cycle
UnisonPhases == {430, 900, 950}

Unison(phase) ==
  [agents |-> [i \in Ids |->
                 NewAgent(i, [Profile(0) EXCEPT !.beatPhase = phase])],
   emitted |-> [i \in Ids |-> << >>],
   rounds |-> 0]

\* The worker ticking every 50 ms from audio time 0, on the sample
\* populations and on the populations in unison
SpecUnison ==
  /\ InitFrom({Fresh(seed) : seed \in Seeds}
               \cup {Unison(phase) : phase \in UnisonPhases})
  /\ [][NextLong]_vars

\* One worker and a host that sends start only to a stopped worker, stop,
\* audio times, parameters and messages the listener drops
NextMessages ==
  \/ StartStopped
  \/ Stop
  \/ PhaseTimerFire(MaxWorkerTicks)
  \/ \E t \in WorkerTimes : AudioTimeMsg(t, MaxWorkerTicks, {0})
  \/ \E parameterName \in ParameterNames :
       \E value \in ParameterValues : SetParameter(parameterName, value)
  \/ IgnoredMsg

SpecMessages == InitSeeded({0}) /\ [][NextMessages]_vars

\* The same worker ticking during a conversation and again about 10 s
\* later, when part of the conversation is older than the history is kept
PruneTimes == {15000, 16000, 25500, 26000}

NextPrune ==
  \/ StartStopped
  \/ PhaseTimerFire(MaxTicks)
  \/ \E t \in PruneTimes : AudioTimeMsg(t, MaxTicks, {0})

SpecPrune == Init /\ [][NextPrune]_vars

\* The same worker on a host whose audio clock reads 15 s at the first tick
\* and then stands still (a suspended AudioContext) 0.25 s or 0.35 s later:
\* the beats the agents cross half a period after the first tick fall
\* within and outside the 0.3 s the learner looks back, with degrees a
\* semitone, a tone and a minor third apart
HeldTimes == {15250, 15350}
HeldDegrees == {0, 1, 3}

\* The clock value of the next tick is t
HeldClock(t) ==
  IF run.ticks = 0 THEN t = conversationCooldown
  ELSE t \in HeldTimes /\ (run.ticks = 1 \/ t = run.prevTickTime)

NextHeld ==
  \/ StartStopped
  \/ PhaseTimerFire(MaxHeldTicks)
  \/ \E t \in {conversationCooldown} \cup HeldTimes :
       HeldClock(t) /\ AudioTimeMsg(t, MaxHeldTicks, HeldDegrees)

SpecHeld == InitSeeded({0}) /\ [][NextHeld]_vars

\* A population whose agents beat together, within 60 degrees of one
\* another, but for every fourth: of the others one in four finds food at
\* the first tick, with an efficiency that leaves it foraging below its
\* maximum, and the rest find none
FlockProfile(i) ==
  CASE i % 4 = 1 -> [Profile(0) EXCEPT !.forageEfficiency = 5000,
                                        !.territoryPhase = 50]
    [] i % 4 = 3 -> [Profile(3) EXCEPT !.territoryPhase = 700]
    [] OTHER -> [Profile(0) EXCEPT !.territoryPhase = 700]

Flock ==
  [agents |-> [i \in Ids |-> NewAgent(i, FlockProfile(i))],
   emitted |-> [i \in Ids |-> << >>],
   rounds |-> 0]

\* The flock on the host whose clock stands still after the first tick
NextFlock ==
  \/ StartStopped
  \/ PhaseTimerFire(MaxHeldTicks)
  \/ \E t \in {conversationCooldown} \cup HeldTimes :
       HeldClock(t) /\ AudioTimeMsg(t, MaxHeldTicks, {0})

SpecFlock == InitFrom({Flock}) /\ [][NextFlock]_vars

\* One worker and a host that sends start and stop in any order, to a
\* running and to a stopped simulator
NextLifecycle ==
  \/ Start
  \/ Stop
  \/ \E walk \in WalkDraws : EnvTimerFire(walk)
  \/ PhaseTimerFire(MaxWorkerTicks)
  \/ \E t \in WorkerTimes : AudioTimeMsg(t, MaxWorkerTicks, {0})

SpecLifecycle == InitSeeded({0}) /\ [][NextLifecycle]_vars

\* The voice processor alone: a host that sends up to MaxNotes notes, and
\* the audio thread, which renders block after block for as long as the
\* audio context runs
NoteStartTimes == {0, 1200}
NoteDurations == {300, 1500}

NextVoice ==
  \/ \E startTime \in NoteStartTimes, dur \in NoteDurations :
       HandleMessage(startTime, dur)
  \/ Process

SpecVoice == InitSeeded({0}) /\ [][NextVoice]_vars /\ WF_vars(Process)

\* The same worker ticking every 50 ms, long enough for the status of a
\* silent agent to decay away: the first cooldown ends OpenTicks ticks before
\* the end of the run, and the agents converse from then on
OpenTicks == 20
DecayTime(tick) ==
  conversationCooldown - dt * (MaxDecayTicks - OpenTicks) + dt * tick

NextDecay ==
  \/ StartStopped
  \/ PhaseTimerFire(MaxDecayTicks)
  \/ AudioTimeMsg(DecayTime(run.ticks), MaxDecayTicks, {0})

SpecDecay == Init /\ [][NextDecay]_vars

\* The learning of a population over many conversations. A conversation of
\* the rehearsal is one tick in which the last four agents are granted in
\* turn: the last of them plays degree 0, the others degree 1, a semitone
\* away.
LearnDegrees == {0, 1}

RECURSIVE SpeakInTurn(_, _, _)
SpeakInTurn(st, i, currentTime) ==
  IF i >= NumAgents THEN st
  ELSE SpeakInTurn(
         Speak(st, i, 0, currentTime, 5000,
               IF i = NumAgents - 1 THEN 0 ELSE 1),
         i + 1, currentTime)

\* The time of the conversation that follows those already held
ConversationTime(rounds) == conversationCooldown * (rounds + 1)

Conversation(start) ==
  LET currentTime == ConversationTime(start.rounds)
      st == SpeakInTurn(
              [agents |-> start.agents, conversationHistory |-> << >>,
               notes |-> << >>, playing |-> {}, evals |-> << >>],
              Max(0, NumAgents - 4), currentTime)
  IN  [agents |-> st.agents,
       emitted |-> EmittedAfter(start.emitted, st.evals, currentTime),
       rounds |-> start.rounds + 1]

\* One conversation of the rehearsal is held, from a tick with no grant yet
Rehearse ==
  LET held == Conversation([agents |-> agents, emitted |-> run.emitted,
                            rounds |-> run.rounds])
  IN  /\ run.rounds < MaxRounds
      /\ conversationHistory = << >>
      /\ agents' = held.agents
      /\ run' = [run EXCEPT !.emitted = held.emitted,
                            !.rounds = held.rounds,
                            !.lastEmission = ConversationTime(run.rounds)]
      /\ UNCHANGED <<coupling, currentlyPlayingAgents, conversationHistory,
                     lastConversationEnd, currentLightLevel, isRunning,
                     envIntervalId, phaseIntervalId, time,
                     lastVisualizationTime, light, baseLight, timers,
                     pendingRequests, posted, lastTick,
                     voices, noteEvents, currentFrame, voiceOut, notesReceived>>

\* One more agent of the tick is granted emission: the granted branch of the
\* loop of generateNotes, for agents visited in ascending order
GrantedEmission(i, degree) ==
  LET currentTime == ConversationTime(run.rounds)
      st == Speak([agents |-> agents,
                   conversationHistory |-> conversationHistory,
                   notes |-> << >>, playing |-> {}, evals |-> << >>],
                  i, lastConversationEnd, currentTime, light, degree)
  IN  /\ \A e \in 1 .. Len(conversationHistory) :
           conversationHistory[e].agentId < i
      /\ didCrossBeat(agents[i].lastBeatPhase, agents[i].beatPhase)
      /\ shouldEmitNote(agents[i], conversationHistory, lastConversationEnd,
                        currentTime, 0)
      /\ agents' = st.agents
      /\ conversationHistory' = st.conversationHistory
      /\ currentlyPlayingAgents' = currentlyPlayingAgents \cup {i}
      /\ posted' = << >>
      /\ lastTick' =
           [n |-> lastTick.n + 1, time |-> currentTime,
            prevTickTime |-> run.prevTickTime,
            prevEmission |-> run.lastEmission,
            afterStop |-> run.afterStop,
            before |-> agents,
            historyBefore |-> conversationHistory,
            lceBefore |-> lastConversationEnd,
            lightLevel |-> light,
            playingBefore |-> currentlyPlayingAgents,
            evals |-> st.evals, notes |-> st.notes]
      /\ run' = [run EXCEPT
                   !.prevTickTime = currentTime,
                   !.lastEmission = currentTime,
                   !.emitted = EmittedAfter(@, st.evals, currentTime)]
      /\ UNCHANGED <<coupling, lastConversationEnd, currentLightLevel,
                     isRunning, envIntervalId, phaseIntervalId, time,
                     lastVisualizationTime, light, baseLight, timers,
                     pendingRequests,
                     voices, noteEvents, currentFrame, voiceOut, notesReceived>>

NextLearn ==
  \/ Rehearse
  \/ \E i \in Ids : \E degree \in LearnDegrees : GrantedEmission(i, degree)

SpecLearn == InitSeeded({0}) /\ [][NextLearn]_vars

----------------------------------------------------------------------------
(* Claims *)

EvalIndexes == 1 .. Len(lastTick.evals)

\* Evaluations of the last tick before the k-th that were granted
GrantsBefore(k) == {m \in 1 .. (k - 1) : lastTick.evals[m].granted}

\* C1: in every reachable state every agent's beatPhase and phrasePhase lie
\* in [0, 2*PI): the update wraps, it never leaves a phase negative or at or
\* above 2*PI.
C1_PhasesInRange ==
  \A i \in Ids :
    /\ 0 <= agents[i].beatPhase /\ agents[i].beatPhase < TWO_PI
    /\ 0 <= agents[i].phrasePhase /\ agents[i].phrasePhase < TWO_PI

\* A tick in which a beat phase and a phrase phase passed 2*PI and wrapped
C1_Witness ==
  /\ lastTick.n > 0
  /\ \E i \in Ids : agents[i].beatPhase < lastTick.before[i].beatPhase
  /\ \E i \in Ids : agents[i].phrasePhase < lastTick.before[i].phrasePhase

\* C2: in a tick whose time minus lastConversationEnd is below the 15 s
\* cooldown, no evaluated agent is granted emission and no note is produced
\* or posted.
C2_CooldownSilent ==
  (lastTick.n > 0 /\ lastTick.time - lastConversationEnd < conversationCooldown)
    => /\ lastTick.notes = << >>
       /\ \A k \in EvalIndexes : ~lastTick.evals[k].granted
       /\ \A m \in 1 .. Len(posted) : posted[m].type # "notes"

\* A tick in the cooldown that follows a conversation, with an agent that
\* crossed a beat and was evaluated by the scheduler
C2_Witness ==
  /\ lastTick.n > 0
  /\ lastConversationEnd > 0
  /\ lastTick.time - lastConversationEnd < conversationCooldown
  /\ lastTick.evals # << >>

\* C3: with non-decreasing audio times, whenever an agent is granted
\* emission as first speaker (position 0), at least 15 s have passed since
\* the most recent earlier emission.
C3_FirstSpeakerAfterCooldown ==
  \A k \in EvalIndexes :
    (/\ lastTick.evals[k].granted
     /\ lastTick.evals[k].conversationPosition = 0
     /\ lastTick.prevEmission # -1)
      => lastTick.time - lastTick.prevEmission >= conversationCooldown

\* C4 as stated: once agent i is granted emission, every agent evaluated
\* later in the tick sees the position i saw plus one, an elapsed time of 0
\* and agent i as the most recent speaker.
C4_EveryLaterAgentSeesSpeaker ==
  \A k \in EvalIndexes : \A m \in EvalIndexes :
    (k < m /\ lastTick.evals[k].granted)
      => /\ lastTick.evals[m].conversationPosition
              = lastTick.evals[k].conversationPosition + 1
         /\ lastTick.evals[m].timeSinceLastSpeaker = 0
         /\ lastTick.evals[m].lastSpeaker = lastTick.evals[k].agentId

\* C4 amended: the agents are evaluated in ascending index order, and an
\* agent evaluated after one or more grants of the tick sees the position
\* the first evaluated agent saw plus the number of grants made since, an
\* elapsed time of 0, and the agent granted last as the most recent speaker.
C4_GrantsSeenInOrder ==
  \A m \in EvalIndexes :
    /\ \A k \in 1 .. (m - 1) :
         lastTick.evals[k].agentId < lastTick.evals[m].agentId
    /\ lastTick.evals[m].conversationPosition
         = lastTick.evals[1].conversationPosition
           + Cardinality(GrantsBefore(m))
    /\ GrantsBefore(m) # {}
         => /\ lastTick.evals[m].timeSinceLastSpeaker = 0
            /\ \E k \in GrantsBefore(m) :
                 /\ \A j \in GrantsBefore(m) : j <= k
                 /\ lastTick.evals[m].lastSpeaker = lastTick.evals[k].agentId

\* A tick in which two agents were granted and a third was evaluated
C4_Witness ==
  \E m \in EvalIndexes : Cardinality(GrantsBefore(m)) >= 2

\* C5: after a stop message is handled and until a start is handled, no
\* handler posts an outbound message; an audioTime that arrives then posts
\* no phases and updates nothing.
C5_NoOutboundAfterStop == run.afterStop => posted = << >>

\* C6: when an agent is granted emission, its speakingEnergy is debited by
\* its speakingCost, floored at 0, before any social bonus is added.
C6_SpeakingCostDebited ==
  \A k \in EvalIndexes :
    lastTick.evals[k].granted
      => lastTick.evals[k].energyBeforeBenefits
           = Max(0, lastTick.evals[k].energyAtGrant
                    - agents[lastTick.evals[k].agentId].speakingCost)

\* C7: in every reachable state, the fresh population included, every agent
\* has 0 <= speakingEnergy <= maxSpeakingEnergy.
C7_SpeakingEnergyInRange ==
  \A i \in Ids :
    /\ 0 <= agents[i].speakingEnergy
    /\ agents[i].speakingEnergy <= agents[i].maxSpeakingEnergy

\* C8: when a start is handled after a stop, the population is a freshly
\* initialized one (recentNotes empty, all weights 1.0, no foraging or
\* social history) and the conversation history is empty.
C8_RestartReinitializes ==
  run.restarted
    => /\ \E seed \in Seeds : agents = initializeAgents(seed)
       /\ conversationHistory = << >>
       /\ lastConversationEnd = 0

\* C9: the clock value of each executed tick is strictly greater than the
\* clock value of the tick before it.
C9_TickTimesIncrease ==
  lastTick.n >= 2 => lastTick.time > lastTick.prevTickTime

\* All the orders in which the loop of updatePhases could visit the agents
Orders ==
  {o \in [1 .. NumAgents -> Ids] :
     \A x \in 1 .. NumAgents : \A y \in 1 .. NumAgents :
       o[x] = o[y] => x = y}

\* C10: one phase-update step gives the same population whatever the order
\* in which the agents are visited: every new phase is computed from the
\* phases held at the start of the step.
C10_OrderIndependent ==
  \A o \in Orders :
    UpdatePhasesInOrder(agents, o, coupling) = updatePhases(agents, coupling)

\* A state reached by a tick in which a visited agent's neighbour holds a
\* phase that differs from the agent's, so that the coupling term is not 0
C10_Witness ==
  /\ lastTick.n > 0
  /\ \E i \in Ids :
       Sin(agents[leftNeighbor(i)].beatPhase - agents[i].beatPhase)
       + Sin(agents[rightNeighbor(i)].beatPhase - agents[i].beatPhase) # 0

\* The update of the last granted emission: who played, which degree, the
\* neighbour notes it sampled and the weight the degree had before the
\* normalization
LastUpdate ==
  LET e == lastTick.evals[Len(lastTick.evals)]
      pre == e.beforeBenefits
      old == IF Len(lastTick.evals) = 1 THEN lastTick.before
             ELSE lastTick.evals[Len(lastTick.evals) - 1].afterBenefits
      neighborNotes == NeighborNotes(old, e.agentId, lastTick.time, 0)
      change == IF Len(neighborNotes) > 0
                THEN TotalChange(e.degree, neighborNotes, Len(neighborNotes))
                ELSE 0
  IN  [agentId |-> e.agentId, degree |-> e.degree,
       density |-> Len(neighborNotes), change |-> change,
       adjusted |-> old[e.agentId].degreeWeights[e.degree] + change,
       totalWeight |-> SumWeights(old[e.agentId].degreeWeights, 11) + change,
       learned |-> pre[e.agentId]]

\* C11: after every learning update the twelve degreeWeights of every agent
\* sum to 12 (12000 in 1/1000, less at most one unit of rounding per weight).
C11_WeightsSumConstant ==
  \A i \in Ids :
    LET total == SumWeights(agents[i].degreeWeights, 11)
    IN  12000 - 12 <= total /\ total <= 12000

\* C12: after every learning update every degreeWeight of every agent is at
\* least 0.1.
C12_WeightsAtLeastMinimum ==
  \A i \in Ids : \A d \in 0 .. 11 : agents[i].degreeWeights[d] >= 100

\* An update that penalized the played degree for several neighbour notes
\* and whose normalized weight, below 0.1, was raised to 0.1
C12_Witness ==
  /\ lastTick.n > 0
  /\ \E k \in EvalIndexes : lastTick.evals[k].granted
  /\ LastUpdate.density >= 2
  /\ LastUpdate.change < 0
  /\ LastUpdate.totalWeight > 0
  /\ (LastUpdate.adjusted * 12000) \div LastUpdate.totalWeight < 100
  /\ agents[LastUpdate.agentId].degreeWeights[LastUpdate.degree] = 100

\* The last three, or fewer, entries of a sequence
LastUpToThree(notes) == SubSeq(notes, Max(1, Len(notes) - 2), Len(notes))

\* C13: recentNotes never holds more than 3 entries and is the agent's last
\* up-to-3 emitted notes in emission order.
C13_RecentNotesLastThree ==
  \A i \in Ids :
    /\ Len(agents[i].recentNotes) <= 3
    /\ agents[i].recentNotes = LastUpToThree(run.emitted[i])

\* An emission of an agent that already held three recent notes
C13_Witness ==
  /\ lastTick.n > 0
  /\ \E k \in EvalIndexes :
       /\ lastTick.evals[k].granted
       /\ Len(lastTick.before[lastTick.evals[k].agentId].recentNotes) = 3
       /\ Len(run.emitted[lastTick.evals[k].agentId]) >= 4

\* Light levels of a second run: night (0.3) and day (0.8)
LightLevels == {3000, 8000}

\* The agent of evaluation e crosses a beat in st and a draw of 0 passes
\* its threshold
DrawPasses(st, e, lce, currentTime) ==
  /\ didCrossBeat(st.agents[e.agentId].lastBeatPhase,
                  st.agents[e.agentId].beatPhase)
  /\ shouldEmitNote(st.agents[e.agentId], st.conversationHistory, lce,
                    currentTime, 0)

\* The loop of generateNotes taking again the draws recorded in evals
RECURSIVE ReplayLoop(_, _, _, _, _)
ReplayLoop(st, evals, lce, currentTime, lightLevel) ==
  IF evals = << >> THEN st
  ELSE LET e == Head(evals)
       IN  ReplayLoop(
             IF e.granted /\ DrawPasses(st, e, lce, currentTime)
             THEN Speak(st, e.agentId, lce, currentTime, lightLevel, e.degree)
             ELSE Silent(st, e.agentId, lce, currentTime),
             Tail(evals), lce, currentTime, lightLevel)

\* The result the last grant has, with the same agents, history, clock and
\* draws, when the worker holds the light level lightLevel
LastTickUnder(lightLevel) ==
  LET st == ReplayLoop(
              [agents |-> lastTick.before,
               conversationHistory |-> lastTick.historyBefore,
               notes |-> << >>, playing |-> {}, evals |-> << >>],
              lastTick.evals, lastTick.lceBefore, lastTick.time,
              IF lightLevel = 0 THEN 5000 ELSE lightLevel)
  IN  [agents |-> st.agents,
       conversationHistory |-> st.conversationHistory,
       lastConversationEnd |-> lastTick.lceBefore,
       notes |-> st.notes,
       playing |-> lastTick.playingBefore \cup st.playing,
       evals |-> st.evals]

\* r took the draws of the last tick and left everything the light level
\* must not influence as the last tick left it
SameButFrequency(r) ==
  /\ Len(r.evals) = Len(lastTick.evals)
  /\ \A m \in 1 .. Len(r.evals) :
       LET e == r.evals[m]
           f == lastTick.evals[m]
       IN  /\ e.agentId = f.agentId
           /\ e.isInCooldown = f.isInCooldown
           /\ e.conversationPosition = f.conversationPosition
           /\ e.timeSinceLastSpeaker = f.timeSinceLastSpeaker
           /\ e.lastSpeaker = f.lastSpeaker
           /\ e.threshold = f.threshold
           /\ e.granted = f.granted
           /\ e.degree = f.degree
           /\ \A j \in Ids : e.beforeBenefits[j] = f.beforeBenefits[j]
           /\ \A j \in Ids : e.afterBenefits[j] = f.afterBenefits[j]
  /\ r.agents = agents
  /\ r.conversationHistory = conversationHistory
  /\ r.lastConversationEnd = lastConversationEnd
  /\ r.playing = currentlyPlayingAgents
  /\ Len(r.notes) = Len(lastTick.notes)
  /\ \A m \in 1 .. Len(r.notes) :
       [r.notes[m] EXCEPT !.pitchClass = 0]
         = [lastTick.notes[m] EXCEPT !.pitchClass = 0]

\* C14: the light level influences only the pitch of the emitted note: a
\* grant that differs from the last one only in the light level is made at
\* the same threshold, stores the same degree in recentNotes and leaves the
\* same degreeWeights, history and population.
C14_LightOnlyShiftsPitch ==
  lastTick.n > 0
    => \A lightLevel \in LightLevels :
         SameButFrequency(LastTickUnder(lightLevel))

\* A tick with an emission whose pitch by day differs from its pitch in
\* this run, the rest being equal
C14_Witness ==
  /\ lastTick.n > 0
  /\ lastTick.notes # << >>
  /\ getCurrentTonicShift(lastTick.lightLevel) # getCurrentTonicShift(8000)
  /\ SameButFrequency(LastTickUnder(8000))
  /\ LastTickUnder(8000).notes # lastTick.notes

\* The energy of the agent of evaluation e (energy is set at construction
\* and never written again)
EnergyOf(e) == e.beforeBenefits[e.agentId].energy

\* e answers a speaker: it is no first speaker, its position has a response
\* window and the last speaker spoke within that window
IsResponse(e) ==
  /\ ~e.isInCooldown
  /\ e.conversationPosition >= 1
  /\ e.conversationPosition < 4
  /\ e.timeSinceLastSpeaker
       <= <<2000, 1500, 1000, 800>>[e.conversationPosition]

\* id is the last speaker's id plus or minus 1, modulo the population size
RingAdjacent(id, last) ==
  \/ id = (last + 1) % NumAgents
  \/ id = (last + NumAgents - 1) % NumAgents

Thresholds == 0..(TWO_PI - 1)

\* C16: for a step that does not wrap (lastPhase <= currentPhase) a crossing
\* of threshold t is reported exactly when lastPhase <= t < currentPhase
\* (0.1 -> 0.2 rad, i.e. 16 -> 32, crosses 0.15 rad = 24 but not
\* 0.25 rad = 40), and the wrapped step 6.2 -> 0.1 rad (987 -> 16) is
\* reported as crossing 0.05 rad = 8.
C16_CrossingDetection ==
  /\ \A i \in Ids :
       LET lastPhase == agents[i].lastBeatPhase
           currentPhase == agents[i].beatPhase
       IN  lastPhase <= currentPhase
             => \A t \in Thresholds :
                  crossedPhase(lastPhase, currentPhase, t)
                    <=> (lastPhase <= t /\ t < currentPhase)
  /\ crossedPhase(16, 32, 24)
  /\ ~crossedPhase(16, 32, 40)
  /\ crossedPhase(987, 16, 8)

\* After a tick one agent's step crosses the half cycle without wrapping
\* and another agent's step wraps
C16_Witness ==
  /\ lastTick.n > 0
  /\ \E i \in Ids :
       /\ agents[i].lastBeatPhase <= PI
       /\ PI < agents[i].beatPhase
  /\ \E i \in Ids : agents[i].lastBeatPhase > agents[i].beatPhase

\* Granted evaluation e answers a note of another agent made between 0.1 s
\* and 3 s earlier
AnswersWithinValidation(e) ==
  /\ e.granted
  /\ e.lastSpeaker # -1
  /\ e.lastSpeaker # e.agentId
  /\ e.timeSinceLastSpeaker >= 100
  /\ e.timeSinceLastSpeaker <= 3000

\* C17: the validation bonus goes to the speaker that was responded to: when
\* agent B emits a note between 0.1 s and 3 s after a note of another agent
\* A, A's socialStatus is raised by half the bonus 0.08 * B's socialStatus
\* (up to 1.0) and A's speakingEnergy by the bonus (up to A's
\* maxSpeakingEnergy).
C17_ValidationToSpeakerAnswered ==
  \A k \in EvalIndexes :
    LET e == lastTick.evals[k]
        A == e.beforeBenefits[e.lastSpeaker]
        B == e.beforeBenefits[e.agentId]
        validationBonus == (8 * B.socialStatus) \div 100
    IN  AnswersWithinValidation(e)
          => /\ e.afterBenefits[e.lastSpeaker].socialStatus
                  = Min(10000, A.socialStatus + validationBonus \div 2)
             /\ e.afterBenefits[e.lastSpeaker].speakingEnergy
                  >= Min(A.maxSpeakingEnergy,
                         A.speakingEnergy + validationBonus)

\* Agents whose beat phase is less than PI / 3 away from the speaker's on
\* the circle, at the time the speaker of evaluation e is granted
NearbyOf(e) ==
  LET p == e.beforeBenefits[e.agentId].beatPhase
  IN  {j \in Ids \ {e.agentId} :
         LET d == Abs(p - e.beforeBenefits[j].beatPhase)
         IN  3 * (IF d < TWO_PI - d THEN d ELSE TWO_PI - d) < PI}

\* min(0.1, 0.02 * number of nearby agents)
FeedingBonus(e) ==
  IF 200 * Cardinality(NearbyOf(e)) < 1000
  THEN 200 * Cardinality(NearbyOf(e))
  ELSE 1000

\* The speaker of e finds a note of another agent between 0.1 s and 3 s old
\* in the history (notes of the running tick are 0 s old)
HearsValidation(e) ==
  \E n \in 1..Len(lastTick.historyBefore) :
    /\ lastTick.historyBefore[n].agentId # e.agentId
    /\ lastTick.time - lastTick.historyBefore[n].time >= 100
    /\ lastTick.time - lastTick.historyBefore[n].time <= 3000

\* C18 as stated: when an agent speaks, each agent within 60 degrees of the
\* speaker's beat phase receives the feeding bonus
\* min(0.1, 0.02 * number of nearby agents) on its own speakingEnergy,
\* clamped at its maxSpeakingEnergy.
C18_FeedingToNearbyAgents ==
  \A k \in EvalIndexes :
    LET e == lastTick.evals[k]
    IN  e.granted
          => \A j \in NearbyOf(e) :
               e.afterBenefits[j].speakingEnergy
                 = Min(e.beforeBenefits[j].maxSpeakingEnergy,
                       e.beforeBenefits[j].speakingEnergy + FeedingBonus(e))

\* C18 as amended: when an agent speaks, the speaker itself receives the
\* feeding bonus min(0.1, 0.02 * number of agents within 60 degrees of its
\* beat phase) on its speakingEnergy, clamped at its maxSpeakingEnergy;
\* only a validation bonus can raise it further, up to the same maximum.
C18_FeedingToSpeaker ==
  \A k \in EvalIndexes :
    LET e == lastTick.evals[k]
        speaker == e.beforeBenefits[e.agentId]
        fed == Min(speaker.maxSpeakingEnergy,
                   speaker.speakingEnergy + FeedingBonus(e))
        after == e.afterBenefits[e.agentId]
    IN  e.granted
          => /\ fed <= after.speakingEnergy
             /\ after.speakingEnergy <= speaker.maxSpeakingEnergy
             /\ ~HearsValidation(e) => after.speakingEnergy = fed

\* A speaker with nearby agents and room below its maximum is fed the whole
\* bonus (no validation bonus is due)
C18_Witness ==
  \E k \in EvalIndexes :
    LET e == lastTick.evals[k]
        speaker == e.beforeBenefits[e.agentId]
    IN  /\ e.granted
        /\ ~HearsValidation(e)
        /\ NearbyOf(e) # {}
        /\ speaker.speakingEnergy + FeedingBonus(e)
             < speaker.maxSpeakingEnergy
        /\ e.afterBenefits[e.agentId].speakingEnergy
             = speaker.speakingEnergy + FeedingBonus(e)

\* C19: after the worker handles a setParameter message that names the
\* coupling strength with a value v in [0, 0.5], every subsequent phase
\* update (a step that completes a tick) uses coupling K = v.
C19_CouplingFollowsParameter ==
  [][(run.couplingRequested # -1 /\ lastTick'.n # lastTick.n)
       => coupling = run.couplingRequested]_vars

\* The evaluations of the last tick that were granted emission
GrantedEvals == {k \in EvalIndexes : lastTick.evals[k].granted}

\* C20: every NoteEvent emitted in a tick has startTime equal to the audio
\* time supplied for that tick plus the 0.1 s look-ahead, for every speaking
\* agent of the tick: one note per granted agent, in the tick's record and
\* in the notes message posted for it.
C20_StartTimeLookAhead ==
  /\ Len(lastTick.notes) = Cardinality(GrantedEvals)
  /\ \A m \in 1 .. Len(lastTick.notes) :
       lastTick.notes[m].startTime = lastTick.time + 100
  /\ \A p \in 1 .. Len(posted) :
       posted[p].type = "notes"
         => \A m \in 1 .. Len(posted[p].notes) :
              posted[p].notes[m].startTime = posted[p].tAudio + 100

\* A tick in which two agents spoke and whose notes message is posted
C20_Witness ==
  /\ Len(lastTick.notes) >= 2
  /\ lastTick.time > 0
  /\ \E p \in 1 .. Len(posted) :
       /\ posted[p].type = "notes"
       /\ posted[p].tAudio = lastTick.time
       /\ posted[p].notes = lastTick.notes

\* The messages of one type among msgs
OfType(msgs, type) == SelectSeq(msgs, LAMBDA m : m.type = type)

\* C21: each handled audioTime message (one tick) posts exactly one phases
\* message, and posts a notes message in that tick exactly when at least one
\* note was generated; an empty note batch is never posted and no tick posts
\* two note batches.
C21_OnePhasesNotesIfAny ==
  [][lastTick'.n # lastTick.n
       => /\ Len(OfType(posted', "phases")) = 1
          /\ Len(OfType(posted', "notes"))
               = (IF Len(lastTick'.notes) > 0 THEN 1 ELSE 0)
          /\ \A m \in 1 .. Len(posted') :
               posted'[m].type = "notes"
                 => /\ Len(posted'[m].notes) > 0
                    /\ posted'[m].notes = lastTick'.notes]_vars

\* A tick that generated notes has posted its phases and its note batch
C21_Witness ==
  /\ lastTick.n > 0
  /\ Len(lastTick.notes) > 0
  /\ Len(OfType(posted, "phases")) = 1
  /\ Len(OfType(posted, "notes")) = 1

\* A tick that generated no note has posted its phases and no note batch
C21_WitnessSilent ==
  /\ lastTick.n > 0
  /\ Len(lastTick.notes) = 0
  /\ Len(OfType(posted, "phases")) = 1
  /\ Len(OfType(posted, "notes")) = 0

\* C22: in every reachable state every agent's territoryPhase lies in
\* [0, 2 * PI): each advance of the territory phase wraps the value back
\* into that range.
C22_TerritoryPhaseInRange ==
  \A i \in Ids :
    /\ 0 <= agents[i].territoryPhase
    /\ agents[i].territoryPhase < TWO_PI

\* C23: in every reachable state every agent's socialStatus lies in [0, 1]:
\* forage and validation gains are capped at 1 and status decay is floored
\* at 0, for any interleaving of foraging, decay and speaking events.
C23_SocialStatusInRange ==
  \A i \in Ids :
    /\ 0 <= agents[i].socialStatus
    /\ agents[i].socialStatus <= 10000

\* One agent's status has decayed to the floor while, in the last tick, a
\* speaker's status rose by a validation bonus
C23_Witness ==
  /\ \E i \in Ids : agents[i].socialStatus = 0
  /\ \E k \in EvalIndexes :
       LET e == lastTick.evals[k]
       IN  /\ e.granted
           /\ e.afterBenefits[e.agentId].socialStatus
                > e.beforeBenefits[e.agentId].socialStatus

\* The step handles a message the claim says is ignored: one the listener
\* drops (unknown type, audioTime or setParameter without a value), or a
\* setParameter whose name no tunable of the worker carries
HandlesIgnored ==
  \/ run'.handled = "dropped"
  \/ run'.handled = "setParameter" /\ run'.parameter # "couplingStrength"

\* C25: a message of unknown type, an audioTime message that carries no
\* value, and a setParameter message with an unrecognized parameter name or
\* a missing name or value are ignored: they change no simulation state
\* (agents, conversation history, coupling, running flag, timers) and post
\* no outbound message.
C25_IgnoredMessagesChangeNothing ==
  [][HandlesIgnored
       => /\ posted' = << >>
          /\ UNCHANGED <<agents, coupling, currentlyPlayingAgents,
                         conversationHistory, lastConversationEnd,
                         currentLightLevel, isRunning, envIntervalId,
                         phaseIntervalId, time, lastVisualizationTime,
                         light, baseLight, timers, pendingRequests>>]_vars

\* A running worker that has ticked and awaits an audio time has just
\* dropped a message
C25_Witness ==
  /\ run.handled = "dropped"
  /\ isRunning
  /\ lastTick.n > 0
  /\ pendingRequests > 0

\* The same worker has just handled a setParameter with an unrecognized name
C25_WitnessParameter ==
  /\ run.handled = "setParameter"
  /\ run.parameter = "tempoBias"
  /\ isRunning
  /\ lastTick.n > 0

\* The response window of the speaker at position p: 2.0 s for the second
\* speaker, 1.5 s for the third, 1.0 s for the fourth
WindowOf(p) == CASE p = 1 -> 2000 [] p = 2 -> 1500 [] OTHER -> 1000

\* Evaluation e is made outside cooldown at a position after the first
IsLaterSpeaker(e) == ~e.isInCooldown /\ e.conversationPosition >= 1

\* C26: outside cooldown, an agent evaluated at conversation position p >= 1
\* can be granted emission only if p is below the length 4 of the
\* response-window table and the time since the most recent entry is at
\* most the window of that position; in every other case emission is
\* denied.
C26_GrantOnlyWithinWindow ==
  \A k \in EvalIndexes :
    LET e == lastTick.evals[k]
    IN  (IsLaterSpeaker(e) /\ e.granted)
          => /\ e.conversationPosition < 4
             /\ e.timeSinceLastSpeaker <= WindowOf(e.conversationPosition)

\* A tick that granted a fourth speaker exactly 1.0 s after the third
C26_Witness ==
  \E k \in EvalIndexes :
    /\ IsLaterSpeaker(lastTick.evals[k])
    /\ lastTick.evals[k].granted
    /\ lastTick.evals[k].conversationPosition = 3
    /\ lastTick.evals[k].timeSinceLastSpeaker = 1000

\* A tick that evaluated a later speaker after its window had closed
C26_WitnessDenied ==
  \E k \in EvalIndexes :
    /\ IsLaterSpeaker(lastTick.evals[k])
    /\ ~lastTick.evals[k].granted
    /\ lastTick.evals[k].timeSinceLastSpeaker
         > WindowOf(lastTick.evals[k].conversationPosition)

\* C27: for a step that wraps (lastPhase > currentPhase) a crossing of
\* threshold t is reported only when t lies on the arc travelled through
\* 2 * PI (t >= lastPhase or t < currentPhase); a threshold strictly between
\* currentPhase and lastPhase is not reported as crossed.
C27_WrappedCrossingOnArc ==
  \A i \in Ids :
    LET lastPhase == agents[i].lastBeatPhase
        currentPhase == agents[i].beatPhase
    IN  lastPhase > currentPhase
          => \A t \in Thresholds :
               crossedPhase(lastPhase, currentPhase, t)
                 => (t >= lastPhase \/ t < currentPhase)

\* The forward arc from phase from (inclusive) to phase to (exclusive)
\* contains t
InArc(from, to, t) ==
  IF from <= to THEN from <= t /\ t < to ELSE t >= from \/ t < to

\* The agents the last tick considered for emission
Considered == {lastTick.evals[k].agentId : k \in EvalIndexes}

\* The advance of agent i's beat phase in the last tick
AdvanceOf(i) ==
  (agents[i].beatPhase - lastTick.before[i].beatPhase + TWO_PI) % TWO_PI

\* C29: in every tick an agent is considered for emission exactly when its
\* beat phase passed one of the beat positions 0 or PI during that tick's
\* phase update, i.e. when the forward arc from its start-of-tick phase
\* (inclusive) to its new phase (exclusive) contains 0 or PI, given that the
\* advance is positive and below PI; and it is considered once.
C29_ConsideredIffBeatPassed ==
  lastTick.n > 0
    => /\ \A i \in Ids :
            (0 < AdvanceOf(i) /\ AdvanceOf(i) < PI)
              => (i \in Considered
                    <=> \/ InArc(lastTick.before[i].beatPhase,
                                 agents[i].beatPhase, 0)
                        \/ InArc(lastTick.before[i].beatPhase,
                                 agents[i].beatPhase, PI))
       /\ Len(lastTick.evals) = Cardinality(Considered)

\* Economies of a second run: every agent exhausted, without status and
\* foraging, or every agent rested, at full status and at home
Economies == {"exhausted", "sated"}

OtherEconomy(a, economy) ==
  IF economy = "exhausted"
  THEN [a EXCEPT !.speakingEnergy = 0, !.socialStatus = 0,
                 !.territoryPhase = (a.territoryPhase + 300) % TWO_PI,
                 !.isForaging = TRUE]
  ELSE [a EXCEPT !.speakingEnergy = a.maxSpeakingEnergy,
                 !.socialStatus = 10000,
                 !.territoryPhase = (a.territoryPhase + 700) % TWO_PI,
                 !.isForaging = FALSE]

\* The loop of generateNotes over the agents from i on, in a second run that
\* takes the draws of the last tick: k is the next evaluation of the last
\* tick, same tells whether the second run put every draw so far to the
\* same agent and compared it with the same threshold
RECURSIVE SecondRunLoop(_, _, _, _, _)
SecondRunLoop(st, same, i, k, lce) ==
  IF i >= NumAgents
  THEN [st |-> st, same |-> same /\ k = Len(lastTick.evals) + 1]
  ELSE LET a == st.agents[i]
           crossed == didCrossBeat(a.lastBeatPhase, a.beatPhase)
           recorded == k <= Len(lastTick.evals)
                       /\ lastTick.evals[k].agentId = i
       IN  IF ~crossed
           THEN SecondRunLoop(st, same /\ ~recorded, i + 1,
                              IF recorded THEN k + 1 ELSE k, lce)
           ELSE IF ~recorded
           THEN SecondRunLoop(Silent(st, i, lce, lastTick.time), FALSE,
                              i + 1, k, lce)
           ELSE LET e == lastTick.evals[k]
                    threshold == EmitThreshold(a, st.conversationHistory,
                                               lce, lastTick.time)
                IN  SecondRunLoop(
                      IF e.granted
                      THEN Speak(st, i, lce, lastTick.time,
                                 IF lastTick.lightLevel = 0 THEN 5000
                                 ELSE lastTick.lightLevel,
                                 e.degree)
                      ELSE Silent(st, i, lce, lastTick.time),
                      same /\ threshold = e.threshold, i + 1, k + 1, lce)

\* KuramotoSimulator.update of the last tick in a run with the same phases,
\* frequencies, traits, history, clock and draws and another economy
SecondRun(economy) ==
  LET ags == [i \in Ids |-> OtherEconomy(lastTick.before[i], economy)]
      cleaned == cleanupOldConversation(lastTick.historyBefore,
                                        lastTick.lceBefore, lastTick.time)
  IN  SecondRunLoop(
        [agents |-> updatePhases(
                      updateEnergyManagement(ags, lastTick.time), coupling),
         conversationHistory |-> cleaned.conversationHistory,
         notes |-> << >>, playing |-> {}, evals |-> << >>],
        TRUE, 0, 1, cleaned.lastConversationEnd)

SameEmissions(r) ==
  /\ r.same
  /\ Len(r.st.evals) = Len(lastTick.evals)
  /\ \A m \in 1 .. Len(r.st.evals) :
       /\ r.st.evals[m].agentId = lastTick.evals[m].agentId
       /\ r.st.evals[m].granted = lastTick.evals[m].granted
       /\ r.st.evals[m].threshold = lastTick.evals[m].threshold
       /\ r.st.evals[m].conversationPosition
            = lastTick.evals[m].conversationPosition
  /\ Len(r.st.notes) = Len(lastTick.notes)
  /\ \A m \in 1 .. Len(r.st.notes) : r.st.notes[m] = lastTick.notes[m]
  /\ Len(r.st.conversationHistory) = Len(conversationHistory)
  /\ \A m \in 1 .. Len(conversationHistory) :
       r.st.conversationHistory[m] = conversationHistory[m]

\* C28: emission does not depend on the energy and social economy: a second
\* run of a tick that agrees on phases, natural frequencies, energy and size
\* traits, tick time, history and draws, and differs in speakingEnergy,
\* socialStatus, territoryPhase and isForaging, evaluates the same agents
\* against the same thresholds and emits the same notes by the same agents
\* at the same times; this holds for agents whose speakingEnergy is 0
C28_EmissionIgnoresEconomy ==
  lastTick.n > 0 =>
    \A economy \in Economies : SameEmissions(SecondRun(economy))

\* A tick with a note whose second run grants emission to a speaker that
\* starts the tick with speakingEnergy 0, below its speaking cost after the
\* tick's recharge
C28_Witness ==
  /\ lastTick.n > 0
  /\ Len(lastTick.notes) > 0
  /\ LET r == SecondRun("exhausted")
     IN  \E m \in 1 .. Len(r.st.evals) :
           /\ r.st.evals[m].granted
           /\ lastTick.evals[m].granted
           /\ OtherEconomy(lastTick.before[r.st.evals[m].agentId],
                           "exhausted").speakingEnergy = 0
           /\ r.st.evals[m].energyBeforeBenefits
                < lastTick.before[r.st.evals[m].agentId].speakingCost
           /\ lastTick.before[r.st.evals[m].agentId].speakingEnergy > 0

\* The entries of the conversation history within the last 8 s at
\* currentTime
InConversation(currentTime) == Recent(conversationHistory, currentTime, 8000)

\* C30: at most 4 entries of the conversation history lie within the last
\* 8 s, at the last tick and at every later time up to the 10 s the history
\* is kept, so a conversation has at most 4 notes, and no tick emits more
\* than 4 notes
C30_AtMostFourNotes ==
  /\ \A later \in {0, 1000, 4000, 8000, 10000} :
       Len(InConversation(run.prevTickTime + later)) <= 4
  /\ Len(lastTick.notes) <= 4
  /\ Cardinality({m \in 1 .. Len(lastTick.evals) :
                    lastTick.evals[m].granted}) <= 4

\* A conversation of 4 notes, and an agent that crosses a beat within the
\* last response window of it and is refused as the fifth speaker
C30_Witness ==
  /\ lastTick.n > 0
  /\ Len(InConversation(lastTick.time)) = 4
  /\ \E m \in 1 .. Len(lastTick.evals) :
       /\ lastTick.evals[m].conversationPosition = 4
       /\ ~lastTick.evals[m].isInCooldown
       /\ lastTick.evals[m].timeSinceLastSpeaker <= responseWindows[4]
       /\ lastTick.evals[m].threshold = 0
       /\ ~lastTick.evals[m].granted

\* C31: lastConversationEnd starts at 0, so the scheduler starts in
\* cooldown: a tick whose audio time is below 15 s evaluates every agent
\* that crosses a beat as in cooldown, grants nothing, and no note is
\* produced or posted, whatever the phases and energies of the agents
C31_SilentBeforeFirstCooldownEnds ==
  (lastTick.n > 0 /\ lastTick.time < conversationCooldown)
    => /\ Len(lastTick.notes) = 0
       /\ \A k \in EvalIndexes :
            /\ lastTick.evals[k].isInCooldown
            /\ lastTick.evals[k].threshold = 0
            /\ ~lastTick.evals[k].granted
       /\ Len(OfType(posted, "notes")) = 0
       /\ Len(conversationHistory) = 0
       /\ lastConversationEnd = 0

\* A tick in the last half second before the 15 s, in which the agent of
\* the highest energy trait crossed a beat, was evaluated and was refused
C31_Witness ==
  /\ lastTick.n > 0
  /\ lastTick.time >= conversationCooldown - 500
  /\ lastTick.time < conversationCooldown
  /\ \E k \in EvalIndexes :
       /\ lastTick.evals[k].isInCooldown
       /\ ~lastTick.evals[k].granted
       /\ \A i \in Ids :
            lastTick.before[i].energy
              <= lastTick.before[lastTick.evals[k].agentId].energy

TimersOfKind(kind) == {tm \in timers : tm.kind = kind}

\* The active timers are the two the simulator holds the ids of while it
\* runs, and none while it is stopped, with both ids cleared
OneTimerOfEachKind ==
  /\ Cardinality(TimersOfKind("phase")) <= 1
  /\ Cardinality(TimersOfKind("env")) <= 1
  /\ isRunning =>
       /\ envIntervalId # 0 /\ phaseIntervalId # 0
       /\ envIntervalId # phaseIntervalId
       /\ timers = {[id |-> envIntervalId, kind |-> "env"],
                    [id |-> phaseIntervalId, kind |-> "phase"]}
  /\ ~isRunning =>
       /\ timers = {}
       /\ envIntervalId = 0
       /\ phaseIntervalId = 0

\* A start handled while running and a stop handled while stopped
HandlesRedundant ==
  \/ run'.handled = "start" /\ isRunning
  \/ run'.handled = "stop" /\ ~isRunning

\* C32: for any sequence of start and stop messages at most one tick timer
\* and at most one environment timer are active; a start received while
\* running and a stop received while stopped change nothing, and after a
\* stop both timer ids are cleared and no timer is active
C32_AtMostOneTimerOfEachKind ==
  /\ []OneTimerOfEachKind
  /\ [][HandlesRedundant =>
          UNCHANGED <<isRunning, time, envIntervalId, phaseIntervalId,
                      timers, agents, conversationHistory,
                      lastConversationEnd, pendingRequests>>]_vars
  /\ [][run'.handled = "stop" =>
          /\ ~isRunning' /\ timers' = {}
          /\ envIntervalId' = 0 /\ phaseIntervalId' = 0]_vars

\* A running simulator whose clock has advanced has handled one more
\* start: the clock was not reset and its two timers are the active ones
C32_Witness ==
  /\ isRunning
  /\ run.handled = "start"
  /\ ~run.restarted
  /\ run.everStarted
  /\ time > 0
  /\ Cardinality(timers) = 2

\* The agents or the scheduler change, or a phases or notes message is
\* posted, in this step
SimulationAdvances ==
  \/ agents' # agents
  \/ conversationHistory' # conversationHistory
  \/ lastConversationEnd' # lastConversationEnd
  \/ currentlyPlayingAgents' # currentlyPlayingAgents
  \/ Len(OfType(posted', "phases")) > 0
  \/ Len(OfType(posted', "notes")) > 0

\* C33: each firing of the 50 ms timer, which fires only while the
\* simulator runs, posts exactly one requestAudioTime message and nothing
\* else, and changes no agent or scheduler state; agents, conversation
\* history and outbound phases and notes messages change only in the step
\* that handles an audioTime message
C33_TimerOnlyRequestsAudioTime ==
  /\ [][run'.handled = "phaseTimer" =>
          /\ isRunning
          /\ posted' = <<Msg("requestAudioTime", 0, << >>, << >>, 0)>>
          /\ UNCHANGED <<agents, coupling, conversationHistory,
                         lastConversationEnd, currentlyPlayingAgents,
                         currentLightLevel, lastTick>>]_vars
  /\ [][SimulationAdvances => run'.handled = "audioTime"]_vars

\* The timer has fired in a running simulator whose agents have already
\* been advanced by an earlier audioTime message: one request is posted and
\* awaits its answer
C33_Witness ==
  /\ isRunning
  /\ run.handled = "phaseTimer"
  /\ lastTick.n > 0
  /\ \E i \in Ids : agents[i].beatPhase # lastTick.before[i].beatPhase
  /\ Len(posted) = 1
  /\ posted[1].type = "requestAudioTime"
  /\ pendingRequests = 1

\* The history as the pruning step of the last tick left it: the history
\* after the tick without the entries the tick's grants appended
Pruned ==
  SubSeq(conversationHistory, 1,
         Len(conversationHistory)
           - Cardinality({k \in EvalIndexes : lastTick.evals[k].granted}))

\* Positions in the history before the last tick of the entries that are at
\* most 10 s older than the tick
YoungAt(j) == lastTick.time - lastTick.historyBefore[j].time <= 10000
Young == {j \in 1 .. Len(lastTick.historyBefore) : YoungAt(j)}

\* The position of the m-th of them
NthYoung(m) ==
  CHOOSE j \in Young : Cardinality({n \in Young : n <= j}) = m

AfterEnergyStep(i) ==
  updateEnergyManagement(lastTick.before, lastTick.time)[i]

\* Agent i gained from foraging in the last tick: energy beyond the
\* recharge, status, or a stamp of the tick
Foraged(i) ==
  \/ AfterEnergyStep(i).speakingEnergy
       > Recharge(lastTick.before[i]).speakingEnergy
  \/ AfterEnergyStep(i).socialStatus > lastTick.before[i].socialStatus
  \/ AfterEnergyStep(i).lastForageTime # lastTick.before[i].lastForageTime
  \/ agents[i].lastForageTime # lastTick.before[i].lastForageTime

\* The four conditions of a forage, on agent i before the last tick
MayForage(i) ==
  LET b == lastTick.before[i]
  IN  /\ Recharge(b).speakingEnergy * 100 < b.maxSpeakingEnergy * 95
      /\ lastTick.time - b.lastForageTime >= 2000
      /\ foodAvailability(AfterEnergyStep(i).territoryPhase) > 7000
      /\ ~b.isForaging

\* C35: an agent gains forage energy, with the status gain and the
\* lastForageTime and lastSocialTime stamps, in a tick only if its
\* speakingEnergy after recharge is below 0.95 of its maximum, at least 2 s
\* have passed since lastForageTime, the food availability at its territory
\* phase exceeds 0.7 and it is not already foraging
C35_ForageOnlyWhenAllowed ==
  lastTick.n > 0 =>
    \A i \in Ids :
      Foraged(i) =>
        /\ MayForage(i)
        /\ AfterEnergyStep(i).lastForageTime = lastTick.time
        /\ AfterEnergyStep(i).lastSocialTime = lastTick.time
        /\ AfterEnergyStep(i).isForaging
        /\ agents[i].lastForageTime = lastTick.time

\* The tick at 2.0 s, the first in which 2 s have passed since the initial
\* lastForageTime: an agent that was refused until then forages and gains
\* energy and status, while an agent whose energy is full does not
C35_Witness ==
  /\ lastTick.n > 0
  /\ lastTick.time = 2000
  /\ \E i \in Ids :
       /\ Foraged(i)
       /\ MayForage(i)
       /\ AfterEnergyStep(i).speakingEnergy
            > Recharge(lastTick.before[i]).speakingEnergy
       /\ AfterEnergyStep(i).socialStatus > lastTick.before[i].socialStatus
       /\ agents[i].lastForageTime = lastTick.time
  /\ \E j \in Ids :
       /\ ~Foraged(j)
       /\ Recharge(lastTick.before[j]).speakingEnergy * 100
            >= lastTick.before[j].maxSpeakingEnergy * 95

\* 0.5 * dt * 2 * PI, the advance of the territory phase in one tick
territoryStep == (500 * dt * TWO_PI) \div 1000000

\* C36: in every tick the territoryPhase of every agent advances by the
\* same fixed amount 0.5 * dt * 2 * PI, whether or not the agent's energy is
\* nearly full and whether or not its 2 s forage cooldown has elapsed
C36_TerritoryAdvancesEveryTick ==
  lastTick.n > 0 =>
    \A i \in Ids :
      (agents[i].territoryPhase - lastTick.before[i].territoryPhase) % TWO_PI
        = territoryStep

\* The socialStatus of agent i when the energy-management step of the last
\* tick has run: the status the first evaluation of the tick found, or the
\* status after the tick when no agent was evaluated
StatusAfterEnergyStep(i) ==
  IF lastTick.evals = << >> THEN agents[i].socialStatus
  ELSE lastTick.evals[1].beforeBenefits[i].socialStatus

\* Agent i as the foraging step of the last tick left it
AfterForaging(i) ==
  attemptForaging(Recharge(lastTick.before[i]), lastTick.time)

\* The time since the last social event of agent i that the decay rule of
\* the last tick saw: 0 when the agent foraged in the tick
SinceLastSocial(i) ==
  IF AfterForaging(i).lastForageTime # lastTick.before[i].lastForageTime
  THEN 0
  ELSE lastTick.time - lastTick.before[i].lastSocialTime

\* C37: in the energy-management step of a tick the decay rule lowers an
\* agent's socialStatus by statusDecayRate * dt, floored at 0, exactly when
\* the tick time minus the agent's lastSocialTime, as the foraging step of
\* the tick left it, exceeds 1 s, and leaves the status untouched when the
\* last social event is at most 1 s old
C37_StatusDecayAfterOneSecond ==
  lastTick.n > 0 =>
    \A i \in Ids :
      StatusAfterEnergyStep(i) =
        IF SinceLastSocial(i) > 1000
        THEN Max(0, AfterForaging(i).socialStatus
                      - (lastTick.before[i].statusDecayRate * dt) \div 1000)
        ELSE AfterForaging(i).socialStatus

\* A tick in which the status of one agent decays by its rate while the
\* status of an agent whose last social event is exactly 1 s old is left
\* untouched
C37_Witness ==
  /\ lastTick.n > 0
  /\ \E i \in Ids :
       /\ SinceLastSocial(i) > 1000
       /\ StatusAfterEnergyStep(i) > 0
       /\ StatusAfterEnergyStep(i) < lastTick.before[i].socialStatus
  /\ \E j \in Ids :
       /\ SinceLastSocial(j) = 1000
       /\ lastTick.before[j].socialStatus > 0
       /\ StatusAfterEnergyStep(j) = lastTick.before[j].socialStatus

\* The population the k-th evaluation of the last tick found: learning reads
\* its recentNotes and degreeWeights, which the energy and phase steps of
\* the tick leave alone
FoundBy(k) ==
  IF k = 1 THEN lastTick.before ELSE lastTick.evals[k - 1].afterBenefits

\* The notes of agents other than the speaker of evaluation k recorded
\* within 0.3 s of the tick, as pairs of agent and place in its recentNotes
NotesHeard(k) ==
  {p \in (Ids \ {lastTick.evals[k].agentId}) \X (1 .. 3) :
     /\ p[2] <= Len(FoundBy(k)[p[1]].recentNotes)
     /\ Abs(FoundBy(k)[p[1]].recentNotes[p[2]].time - lastTick.time) <= 300}

IntervalTo(k, p) ==
  Abs(lastTick.evals[k].degree - FoundBy(k)[p[1]].recentNotes[p[2]].degree)
    % 12

\* +0.02 per pleasant note heard, -0.01 per note a semitone away when at
\* least two notes are heard
ChangeOfPlayedDegree(k) ==
  20 * Cardinality({p \in NotesHeard(k) :
                      IntervalTo(k, p) \in {0, 3, 4, 5, 7, 9}})
  - (IF Cardinality(NotesHeard(k)) >= 2
     THEN 10 * Cardinality({p \in NotesHeard(k) : IntervalTo(k, p) = 1})
     ELSE 0)

\* C38: when an agent emits a note of degree d, before renormalization only
\* its degreeWeights[d] changes: by +0.02 for each note of another agent
\* recorded within 0.3 s of the emission at an interval |d - other| mod 12
\* in {0,3,4,5,7,9}, and by -0.01 for each such note at interval 1 only if
\* at least 2 notes of other agents fall in the window; the agent's own
\* recentNotes and the notes outside the window do not contribute, and the
\* weights of the other agents stay as they were
C38_LearningChangesPlayedDegree ==
  \A k \in EvalIndexes :
    lastTick.evals[k].granted =>
      LET e == lastTick.evals[k]
          old == FoundBy(k)[e.agentId].degreeWeights
          adjusted == [old EXCEPT ![e.degree] = @ + ChangeOfPlayedDegree(k)]
      IN  /\ \A d \in 0 .. 11 :
               e.beforeBenefits[e.agentId].degreeWeights[d]
                 = NormalizeWeights(adjusted)[d]
          /\ \A j \in Ids \ {e.agentId} : \A d \in 0 .. 11 :
               e.afterBenefits[j].degreeWeights[d]
                 = FoundBy(k)[j].degreeWeights[d]

\* The speaker of evaluation k holds a note of its own within 0.3 s of the
\* tick, of the degree it plays again
OwnNoteInWindow(k) ==
  \E m \in 1 .. Len(FoundBy(k)[lastTick.evals[k].agentId].recentNotes) :
    LET own == FoundBy(k)[lastTick.evals[k].agentId].recentNotes[m]
    IN  /\ Abs(own.time - lastTick.time) <= 300
        /\ own.degree = lastTick.evals[k].degree

\* An emission by an agent that holds a note of its own degree within the
\* window and hears two notes of other agents, one a minor third and one a
\* semitone away: its weight changes by +0.02 - 0.01
C38_Witness ==
  \E k \in EvalIndexes :
    /\ lastTick.evals[k].granted
    /\ OwnNoteInWindow(k)
    /\ Cardinality(NotesHeard(k)) = 2
    /\ \E p \in NotesHeard(k) : IntervalTo(k, p) = 3
    /\ \E p \in NotesHeard(k) : IntervalTo(k, p) = 1
    /\ ChangeOfPlayedDegree(k) = 10

\* An emission 0.35 s after the notes of the other agents: none is heard and
\* no weight changes
C38_WitnessOutside ==
  \E k \in EvalIndexes :
    /\ lastTick.evals[k].granted
    /\ NotesHeard(k) = {}
    /\ \E j \in Ids \ {lastTick.evals[k].agentId} :
         Len(FoundBy(k)[j].recentNotes) > 0
    /\ \A d \in 0 .. 11 :
         lastTick.evals[k].beforeBenefits[lastTick.evals[k].agentId]
           .degreeWeights[d]
           = FoundBy(k)[lastTick.evals[k].agentId].degreeWeights[d]

\* The fields of an agent the social-benefit step has no business with:
\* phases, traits, territory and foraging state, notes and weights
SameButEnergyAndStatus(a, b) ==
  /\ a.id = b.id
  /\ a.beatPhase = b.beatPhase /\ a.phrasePhase = b.phrasePhase
  /\ a.lastBeatPhase = b.lastBeatPhase
  /\ a.beatOmega = b.beatOmega /\ a.phraseOmega = b.phraseOmega
  /\ a.size = b.size /\ a.energy = b.energy
  /\ a.maxSpeakingEnergy = b.maxSpeakingEnergy
  /\ a.speakingCost = b.speakingCost /\ a.rechargeRate = b.rechargeRate
  /\ a.forageEfficiency = b.forageEfficiency
  /\ a.statusDecayRate = b.statusDecayRate
  /\ a.territoryPhase = b.territoryPhase
  /\ a.lastForageTime = b.lastForageTime /\ a.isForaging = b.isForaging
  /\ a.recentNotes = b.recentNotes
  /\ \A d \in 0 .. 11 : a.degreeWeights[d] = b.degreeWeights[d]

\* The agents the speaking event of e serves: within 60 degrees of the
\* speaker and not foraging
Listeners(e) == {j \in NearbyOf(e) : ~e.beforeBenefits[j].isForaging}

\* C39: a speaking event changes speakingEnergy and lastSocialTime only of
\* the speaker and of the non-foraging agents within 60 degrees beat-phase
\* distance of the speaker, which receive the listener trickle of 0.02 of
\* the speaker's socialStatus up to their maximum; agents that are foraging
\* or farther than 60 degrees away keep both fields, and the step changes
\* no agent's phases, traits or degreeWeights
C39_BenefitsOnlySpeakerAndListeners ==
  \A k \in EvalIndexes :
    LET e == lastTick.evals[k]
    IN  e.granted =>
          /\ \A j \in Ids :
               SameButEnergyAndStatus(e.afterBenefits[j], e.beforeBenefits[j])
          /\ e.afterBenefits[e.agentId].lastSocialTime = lastTick.time
          /\ \A j \in Listeners(e) :
               /\ e.afterBenefits[j].speakingEnergy
                    = Min(e.beforeBenefits[j].maxSpeakingEnergy,
                          e.beforeBenefits[j].speakingEnergy
                            + (2 * e.afterBenefits[e.agentId].socialStatus)
                                \div 100)
               /\ e.afterBenefits[j].lastSocialTime = lastTick.time
               /\ e.afterBenefits[j].socialStatus
                    = e.beforeBenefits[j].socialStatus
          /\ \A j \in Ids \ (Listeners(e) \cup {e.agentId}) :
               /\ e.afterBenefits[j].speakingEnergy
                    = e.beforeBenefits[j].speakingEnergy
               /\ e.afterBenefits[j].lastSocialTime
                    = e.beforeBenefits[j].lastSocialTime
               /\ e.afterBenefits[j].socialStatus
                    = e.beforeBenefits[j].socialStatus

\* A speaking event with a listener that gains the trickle, a foraging
\* agent within 60 degrees, below its maximum and last stamped at an
\* earlier time, that keeps both fields, and an agent farther away, below
\* its maximum, that keeps them too
C39_Witness ==
  \E k \in EvalIndexes :
    LET e == lastTick.evals[k]
    IN  /\ e.granted
        /\ \E j \in Listeners(e) :
             /\ e.afterBenefits[j].speakingEnergy
                  > e.beforeBenefits[j].speakingEnergy
             /\ e.beforeBenefits[j].lastSocialTime < lastTick.time
        /\ \E j \in NearbyOf(e) :
             /\ e.beforeBenefits[j].isForaging
             /\ e.beforeBenefits[j].speakingEnergy
                  < e.beforeBenefits[j].maxSpeakingEnergy
             /\ e.beforeBenefits[j].lastSocialTime < lastTick.time
        /\ \E j \in Ids \ (NearbyOf(e) \cup {e.agentId}) :
             /\ ~e.beforeBenefits[j].isForaging
             /\ e.beforeBenefits[j].speakingEnergy
                  < e.beforeBenefits[j].maxSpeakingEnergy
             /\ e.beforeBenefits[j].lastSocialTime < lastTick.time

----------------------------------------------------------------------------
(* C40: a voice that was given a note and gets no further noteOn reaches   *)
(* VOICE_IDLE after its end frame and its release, and from then on is     *)
(* idle and silent: since a run holds at most MaxNotes notes, every voice  *)
(* is in the end idle for good, isActive() false and its sample 0.         *)
VoiceAtRest(k) == ~isActive(voices[k]) /\ voiceOut[k] = 0
C40_VoiceReturnsToIdle == <>[](\A k \in VoiceIds : VoiceAtRest(k))

====
